---- MODULE Spec2Model ----
(***************************************************************************)
(* Verification model of mini-fintickstreams.                              *)
(*                                                                         *)
(* Part 1: the sharded batched writer (src/src/db/writer.rs):              *)
(*   DbHandler::new, DbHandler::write_batch, write_batch_with_retry,       *)
(*   with the shard router and the Batch type it borrows.                  *)
(*                                                                         *)
(* Each task owns one Batch and calls write_batch_with_retry on the one    *)
(* shared DbHandler.  write_batch is an async fn: it is cut into one       *)
(* action per segment between two suspension points (.await).              *)
(***************************************************************************)
EXTENDS Integers, Sequences, FiniteSets, TLC

(***************************************************************************)
(* Bounds of the model.                                                    *)
(***************************************************************************)
\* the writer under concurrency (Spec)
NumTasks == 2        \* tasks sharing the DbHandler
MaxInflight == 1     \* writer.max_inflight_batches is drawn from 1..MaxInflight
ConcRows == 2        \* rows appended over the run, all tasks together
ConcCalls == 2       \* write_batch calls over the run, all tasks together
ConcTime == 1        \* the monotonic clock runs over 0..ConcTime
\* the writer with one task (SpecOne)
MaxRows == 3         \* rows appended to the batch over the run
MaxCalls == 2        \* write_batch_with_retry calls over the run
MaxRetries == 1      \* the retries argument is drawn from 0..MaxRetries
MaxBackoff == 1      \* the backoff argument is drawn from 1..MaxBackoff
MaxTime == 1         \* the monotonic clock runs over 0..MaxTime
\* both
FlushInterval == 1   \* batch.flush_interval_ms of every batch

Tasks == 1..NumTasks

Min(a, b) == IF a < b THEN a ELSE b

\* the sum of f[t] over the tasks 1..n
RECURSIVE SumTo(_, _)
SumTo(f, n) == IF n = 0 THEN 0 ELSE f[n] + SumTo(f, n - 1)

(***************************************************************************)
(* Shard rules and routing keys.                                           *)
(***************************************************************************)
Wildcard == "*"

Exchanges == {"binance", "foo"}
Streams == {"depth", "trades", "bar"}
Symbols == {"BTCUSDT", "baz"}

\* BatchKey{ exchange, stream, symbol }
Keys == [exchange : Exchanges, stream : Streams, symbol : Symbols]

\* ShardRule: each field a literal or "*"
ShardRule == [exchange : Exchanges \cup {Wildcard},
              stream : Streams \cup {Wildcard},
              symbol : Symbols \cup {Wildcard}]

Rule(e, k, s) == [exchange |-> e, stream |-> k, symbol |-> s]

\* ShardConfig, reduced to what routing reads: id and the ordered rule list
ShardConfig(id, rules) == [id |-> id, rules |-> rules]

\* The shard list of scenario S2: A takes one key, B is the catch-all.
ShardsS2 ==
    << ShardConfig("A", << Rule("binance", "depth", "BTCUSDT") >>),
       ShardConfig("B", << Rule(Wildcard, Wildcard, Wildcard) >>) >>

\* A shard list without a catch-all: some keys have no shard.
ShardsNoCatchAll ==
    << ShardConfig("A", << Rule("binance", "depth", "BTCUSDT") >>) >>

\* Every list of two shards A, B with one rule each, every one-shard list,
\* and every list of a two-rule shard A followed by the catch-all B.
AllShardLists ==
    { << ShardConfig("A", << ra >>), ShardConfig("B", << rb >>) >> :
          ra \in ShardRule, rb \in ShardRule }
    \cup { << ShardConfig("A", << ra >>) >> : ra \in ShardRule }
    \cup { << ShardConfig("A", << ra, rb >>),
              ShardConfig("B", << Rule(Wildcard, Wildcard, Wildcard) >>) >> :
              ra \in ShardRule, rb \in ShardRule }

\* Result<String, AppError> of the router
RouteOk(id) == [ok |-> TRUE, id |-> id, err |-> "none"]
RouteErr(e) == [ok |-> FALSE, id |-> "none", err |-> e]

\* A rule field matches when it is "*" or equals the argument exactly.
FieldMatches(field, arg) == field = Wildcard \/ field = arg

RuleMatches(rule, exchange, stream, symbol) ==
    /\ FieldMatches(rule.exchange, exchange)
    /\ FieldMatches(rule.stream, stream)
    /\ FieldMatches(rule.symbol, symbol)

ShardMatches(shard, exchange, stream, symbol) ==
    \E r \in 1..Len(shard.rules) :
        RuleMatches(shard.rules[r], exchange, stream, symbol)

\* The scan of the shard list in declaration order, from index i on.
RECURSIVE ScanShards(_, _, _, _, _)
ScanShards(shs, i, exchange, stream, symbol) ==
    IF i > Len(shs)
    THEN RouteErr("NoShardForKey")
    ELSE IF ShardMatches(shs[i], exchange, stream, symbol)
         THEN RouteOk(shs[i].id)
         ELSE ScanShards(shs, i + 1, exchange, stream, symbol)

\* DbPools::shard_id_for(exchange, stream, symbol)
shard_id_for(shs, exchange, stream, symbol) ==
    ScanShards(shs, 1, exchange, stream, symbol)

\* A routing call that passes the key's fields in the wrong order.
RouteBatchSwapped(shs, key) ==
    shard_id_for(shs, key.exchange, key.symbol, key.stream)

\* write_batch's routing call: the three fields of batch.key, in this order.
RouteBatch(shs, key) ==
    shard_id_for(shs, key.exchange, key.stream, key.symbol)


(***************************************************************************)
(* Batch<T>: the per-key row buffer the writer borrows mutably.            *)
(***************************************************************************)
\* The keys of the tasks' batches: one batch per key, one key per task.
KeyList ==
    << [exchange |-> "foo", stream |-> "trades", symbol |-> "baz"],
       [exchange |-> "binance", stream |-> "depth", symbol |-> "BTCUSDT"],
       [exchange |-> "binance", stream |-> "trades", symbol |-> "BTCUSDT"],
       [exchange |-> "foo", stream |-> "depth", symbol |-> "baz"] >>

TaskKey(t) == KeyList[((t - 1) % Len(KeyList)) + 1]

\* A new, empty batch created at time `at`.
NewBatch(key, flush_rows, chunk_rows, at) ==
    [key |-> key, rows |-> << >>, enqueued_at |-> at,
     flush_rows |-> flush_rows, flush_interval_ms |-> FlushInterval,
     chunk_rows |-> chunk_rows]

\* enqueued_at.elapsed() read at time t
Elapsed(b, t) == t - b.enqueued_at

\* A flush predicate that lets an empty batch through once the interval passed.
should_flush_empty_ok(b, t) ==
    \/ Len(b.rows) >= b.flush_rows
    \/ Elapsed(b, t) >= b.flush_interval_ms

\* Batch::should_flush read at time t: never for an empty batch, else by
\* size or by time.
should_flush(b, t) ==
    /\ Len(b.rows) > 0
    /\ \/ Len(b.rows) >= b.flush_rows
       \/ Elapsed(b, t) >= b.flush_interval_ms

\* A chunking that cuts chunks one row too long.
RECURSIVE chunks_too_long(_, _)
chunks_too_long(rows, size) ==
    IF rows = << >> THEN << >>
    ELSE LET n == Min(size + 1, Len(rows))
         IN  << SubSeq(rows, 1, n) >>
                 \o chunks_too_long(SubSeq(rows, n + 1, Len(rows)), size)

\* A chunking that yields the chunks last first.
RECURSIVE chunks_reversed(_, _)
chunks_reversed(rows, size) ==
    IF rows = << >> THEN << >>
    ELSE LET n == Min(size, Len(rows))
         IN  chunks_reversed(SubSeq(rows, n + 1, Len(rows)), size)
                 \o << SubSeq(rows, 1, n) >>

\* batch.rows.chunks(batch.chunk_rows): consecutive slices of `size` rows,
\* the last one possibly shorter; size > 0.
RECURSIVE chunks(_, _)
chunks(rows, size) ==
    IF rows = << >> THEN << >>
    ELSE LET n == Min(size, Len(rows))
         IN  << SubSeq(rows, 1, n) >>
                 \o chunks(SubSeq(rows, n + 1, Len(rows)), size)

(***************************************************************************)
(* State.                                                                  *)
(***************************************************************************)
VARIABLES
    tasks,                 \* the tasks that run; each owns one batch
    limits,                \* what the run may use: rows, calls, clock ticks
    shards,                \* DbPools: the shard list, in declaration order
    max_inflight_batches,  \* WriterConfig.max_inflight_batches
    now,                   \* the monotonic clock (Instant::now())
    permits,               \* inflight.available_permits()
    metrics,               \* DbMetrics: counters and the queue-depth gauge
    store,                 \* per batch key: the INSERT statements issued, in order
    batch,                 \* per task: the Batch it owns
    next_row,              \* per task: the id the next appended row gets
    pc,                    \* per task: where it is
    call,                  \* per task: locals of write_batch_with_retry
    wb,                    \* per task: locals of the current write_batch call
    route,                 \* a routing query and its answer
    failover,              \* RedisGate.failover: on_down, on_saturated
    gate,                  \* RedisGate: enabled, stop_assigning_new, last_disable
    redis_metrics,         \* RedisMetrics: enabled_state, disable_events_total
    gcall,                 \* the gate method being executed and its caller's notes
    evaluation,            \* HealthEvaluator: its thresholds, the last snapshot and verdict
    tracker,               \* RedisPublishLatency: buf, cap, len, idx
    lcall,                 \* the tracker's caller: the last call and the samples accepted
    racing,                \* per thread: the gate method it executes, with others
    poll,                  \* HealthPoller::poll_once: its probes' answers and snapshot
    registry,              \* stream_registry: per shard its rows, and the store's now()
    rcall,                 \* the registry method being executed and its caller's notes
    ws,                    \* the stream task of WsClient::run_stream: position and locals
    rendering,             \* render_string: its arguments, locals and result
    validation             \* validate_config: the AppConfig it is given and its result

\* the ingest side
ingest == << ws, rendering >>

\* the application around them
app == << validation >>

\* the accelerator side: the gate, its configuration and its metrics
redis == << failover, gate, redis_metrics, gcall, evaluation, tracker, lcall,
           racing, poll >>

vars == << tasks, limits, shards, max_inflight_batches, now, permits, metrics, store,
           batch, next_row, pc, call, wb, route, redis, registry, rcall, ingest, app >>

\* what no step of the writer changes: its configuration, and the other
\* components
config == << tasks, limits, shards, max_inflight_batches, redis, registry, rcall,
            ingest, app >>

\* the writer side
writer == << tasks, limits, shards, max_inflight_batches, now, permits, metrics,
             store, batch, next_row, pc, call, wb, route >>

\* what no method of the gate changes
beside_gate ==
    << writer, evaluation, tracker, lcall, racing, poll, registry, rcall, ingest,
       app >>

\* what the evaluator does not change
beside_evaluator ==
    << writer, failover, gate, redis_metrics, gcall, tracker, lcall, racing, poll,
       registry, rcall, ingest, app >>

\* what the latency tracker does not change
beside_tracker ==
    << writer, failover, gate, redis_metrics, gcall, evaluation, racing, poll,
       registry, rcall, ingest, app >>

\* what the registry methods do not change, the shard list apart
beside_registry ==
    << tasks, limits, max_inflight_batches, now, permits, metrics, store, batch,
       next_row, pc, call, wb, route, redis, ingest, app >>

\* locals of write_batch before its first statement
WbIdle ==
    [permit |-> FALSE, shard_id |-> "none", i |-> 0, total_written |-> 0,
     result |-> "none", flushed |-> FALSE,
     rows0 |-> << >>, enq0 |-> 0, t0 |-> 0, mark |-> 0]

\* locals of write_batch_with_retry before its first call
CallIdle ==
    [retries |-> 0, backoff |-> 0, attempt |-> 0, result |-> "none",
     sleep_until |-> 0, slept |-> << >>, wb_calls |-> 0, n |-> 0,
     rows0 |-> << >>]

MetricsZero ==
    [batches_written |-> 0, rows_written |-> 0, failed_batch |-> 0,
     retried_batch |-> 0, queue_depth |-> 0]

NoRoute == [key |-> KeyList[1], result |-> RouteErr("none"), asked |-> FALSE]

(***************************************************************************)
(* The accelerator gate (redis/gate.rs) and the health types it consumes.  *)
(***************************************************************************)
MaxGateCalls == 3    \* gate methods called over the run

\* enum DisableReason
DisableReason == {"Down", "MaxMemory", "MaxPending", "Latency", "Manual", "Saturated"}

\* Option<DisableReason>
OptReason == DisableReason \cup {"None"}

\* struct HealthStatus (the snapshot it carries is not read by the gate)
HealthStatus == [ok : BOOLEAN, reason : OptReason]

\* enum DownPolicy, enum SaturationPolicy, struct FailoverConfig
DownPolicy == {"DisableRedisTemporarily", "PauseAndRetry"}
SaturationPolicy == {"StopAssigningNew", "ErrorNew", "SpilloverToOtherNode"}
FailoverConfig == [on_down : DownPolicy, on_saturated : SaturationPolicy]

\* The stores a gate method performs, in program order.  Each is one step:
\* the flags are separate atomics, last_disable has its own mutex, and
\* readers on other threads may look at the gate between any two of them.
Store(field, value) == [field |-> field, value |-> value]

\* RedisGate::set_disabled
set_disabled(reason) ==
    << Store("enabled", FALSE),
       Store("stop_assigning_new", TRUE),
       Store("last_disable", reason),
       Store("disable_with_reason", IF reason = "None" THEN "Down" ELSE reason) >>

\* apply_saturation that also re-enables publishing
apply_saturation_enables(fo, reason) ==
    << Store("enabled", TRUE),
       Store("stop_assigning_new", TRUE),
       Store("disable_events_total", reason) >>

\* apply_saturation that disables the gate with the saturation reason
apply_saturation_disables(fo, reason) == set_disabled(reason)

\* RedisGate::apply_saturation: the three policies do the same
apply_saturation(fo, reason) ==
    CASE fo.on_saturated = "StopAssigningNew" ->
             << Store("stop_assigning_new", TRUE),
                Store("disable_events_total", reason) >>
      [] fo.on_saturated = "ErrorNew" ->
             << Store("stop_assigning_new", TRUE),
                Store("disable_events_total", reason) >>
      [] fo.on_saturated = "SpilloverToOtherNode" ->
             << Store("stop_assigning_new", TRUE),
                Store("disable_events_total", reason) >>

\* the healthy branch that leaves stop_assigning_new and the reason alone
status_ok_enables_only ==
    << Store("enabled", TRUE),
       Store("enabled_state", TRUE) >>

\* RedisGate::apply_health, status.ok (lines 84-93); enable_manual stores
\* the same (lines 53-56)
status_ok ==
    << Store("enabled", TRUE),
       Store("stop_assigning_new", FALSE),
       Store("last_disable", "None"),
       Store("enabled_state", TRUE) >>

\* the reason the unhealthy branch disables with
DisabledAsGiven(reason) == reason

\* Down when the status carries no reason (line 132-135)
DisabledAs(reason) == IF reason = "None" THEN "Down" ELSE reason

\* RedisGate::apply_health
apply_health(fo, status) ==
    IF status.ok THEN status_ok
    ELSE CASE status.reason = "Down" ->
                  IF fo.on_down = "DisableRedisTemporarily"
                  THEN set_disabled("Down")
                  ELSE set_disabled("Down")
           [] status.reason = "MaxMemory" -> apply_saturation(fo, "MaxMemory")
           [] status.reason = "MaxPending" -> apply_saturation(fo, "MaxPending")
           [] status.reason = "Latency" -> set_disabled("Latency")
           [] status.reason = "Saturated" -> apply_saturation(fo, "Saturated")
           [] status.reason = "Manual" -> set_disabled("Manual")
           [] status.reason = "None" -> set_disabled(DisabledAs(status.reason))

\* a manual disable recorded as an outage
disable_manual_as_down == set_disabled("Down")

\* RedisGate::disable_manual
disable_manual == set_disabled("Manual")

\* RedisGate::enable_manual
enable_manual == status_ok

\* can_assign_new_symbol that looks at stop_assigning_new only
can_assign_new_symbol_stop_only(g) == ~g.stop_assigning_new

\* RedisGate::can_publish
can_publish(g) == g.enabled

\* RedisGate::can_assign_new_symbol
can_assign_new_symbol(g) == g.enabled /\ ~g.stop_assigning_new

\* RedisGate::last_disable_reason
last_disable_reason(g) == g.last_disable

\* RedisGate::new
GateNew ==
    [enabled |-> TRUE, stop_assigning_new |-> FALSE, last_disable |-> "None"]

\* RedisMetrics::new, then set_enabled_state(true) of RedisGate::new
RedisMetricsNew ==
    [enabled_state |-> TRUE, disable_events_total |-> [r \in DisableReason |-> 0]]

(***************************************************************************)
(* The health evaluator (redis/health/evaluator.rs).  f64 measurements are *)
(* counted in halves of the threshold's unit, so that values between two   *)
(* thresholds exist; NaN and the infinities are values of their own.       *)
(***************************************************************************)
MaxThreshold == 1    \* the thresholds of CapacityConfig are drawn from 0..MaxThreshold

\* f64: a finite value v, or NaN, or an infinity
Finite(v) == [cls |-> "finite", v |-> v]
NaN == [cls |-> "nan", v |-> 0]
PosInf == [cls |-> "inf", v |-> 1]
NegInf == [cls |-> "inf", v |-> 0 - 1]

\* Option<T>
None == << >>
Some(x) == << x >>
Option(T) == {None} \cup {Some(x) : x \in T}

\* Option<f64>: used_memory_pct, p99_cmd_ms
OptFloat == Option({Finite(v) : v \in 0..(2 * MaxThreshold + 1)} \cup {NaN, PosInf})

\* Option<u64>: pending_total
OptCount == Option(0..(MaxThreshold + 1))

\* struct RedisSnapshot, the fields evaluate reads
RedisSnapshot ==
    [is_up : BOOLEAN, used_memory_pct : OptFloat, pending_total : OptCount,
     p99_cmd_ms : OptFloat]

\* struct CapacityConfig, the thresholds
CapacityConfig ==
    [max_memory_pct : 0..MaxThreshold, max_pending : 0..MaxThreshold,
     max_p99_cmd_ms : 0..MaxThreshold]

\* RedisSnapshot::down_now
down_now ==
    [is_up |-> FALSE, used_memory_pct |-> None, pending_total |-> None,
     p99_cmd_ms |-> None]

\* HealthStatus::healthy, HealthStatus::unhealthy
healthy == [ok |-> TRUE, reason |-> "None"]
unhealthy(reason) == [ok |-> FALSE, reason |-> reason]

\* a comparison that lets the threshold itself through
FloatGe(x, threshold) ==
    \/ x = PosInf
    \/ x.cls = "finite" /\ x.v >= 2 * threshold

\* x > threshold as f64: false for NaN, true for +inf
FloatGt(x, threshold) ==
    \/ x = PosInf
    \/ x.cls = "finite" /\ x.v > 2 * threshold

\* an evaluation that looks at the latency before memory and backlog
evaluate_latency_first(cap, snapshot) ==
    IF ~snapshot.is_up THEN unhealthy("Down")
    ELSE IF snapshot.p99_cmd_ms # None
            /\ FloatGt(snapshot.p99_cmd_ms[1], cap.max_p99_cmd_ms)
    THEN unhealthy("Latency")
    ELSE IF snapshot.used_memory_pct # None
            /\ FloatGt(snapshot.used_memory_pct[1], cap.max_memory_pct)
    THEN unhealthy("MaxMemory")
    ELSE IF snapshot.pending_total # None
            /\ snapshot.pending_total[1] > cap.max_pending
    THEN unhealthy("MaxPending")
    ELSE healthy

\* HealthEvaluator::evaluate
evaluate(cap, snapshot) ==
    IF ~snapshot.is_up THEN unhealthy("Down")
    ELSE IF snapshot.used_memory_pct # None
            /\ FloatGt(snapshot.used_memory_pct[1], cap.max_memory_pct)
    THEN unhealthy("MaxMemory")
    ELSE IF snapshot.pending_total # None
            /\ snapshot.pending_total[1] > cap.max_pending
    THEN unhealthy("MaxPending")
    ELSE IF snapshot.p99_cmd_ms # None
            /\ FloatGt(snapshot.p99_cmd_ms[1], cap.max_p99_cmd_ms)
    THEN unhealthy("Latency")
    ELSE healthy

\* HealthEvaluator::new(cap) and the snapshot the poller hands it next
EvaluatorNew(cap, snapshot) ==
    [cap |-> cap, snapshot |-> snapshot, status |-> healthy, asked |-> FALSE]

\* the evaluator when other components are looked at
EvaluatorIdle ==
    evaluation = EvaluatorNew([max_memory_pct |-> MaxThreshold,
                               max_pending |-> MaxThreshold,
                               max_p99_cmd_ms |-> MaxThreshold], down_now)

(***************************************************************************)
(* The publish-latency tracker (redis/latency.rs).                         *)
(***************************************************************************)
MaxWindow == 2       \* window_samples is drawn from 1..MaxWindow
MaxSample == 2       \* finite samples are drawn from -1..MaxSample
MaxObserved == 4     \* observe_ms and clear calls over the run
BigWindow == 104     \* the window of the run that fills a long window
Scattered == 108     \* the samples that run observes

\* f64::is_finite
is_finite(x) == x.cls = "finite"

\* ms < 0.0 (false for NaN)
IsNegative(x) == x.cls # "nan" /\ x.v < 0

\* RedisPublishLatency::new
TrackerNew(window_samples) ==
    [buf |-> [i \in 1..window_samples |-> Finite(0)], cap |-> window_samples,
     len |-> 0, idx |-> 0]

\* RedisPublishLatency::observe_ms
observe_ms(tr, ms) ==
    IF ~is_finite(ms) \/ IsNegative(ms)
    THEN tr
    ELSE [tr EXCEPT !.buf[tr.idx + 1] = ms,
                    !.idx = (tr.idx + 1) % tr.cap,
                    !.len = IF tr.len < tr.cap THEN tr.len + 1 ELSE tr.len]

\* a clear that leaves the write position where it was
clear_keeps_idx(tr) ==
    [tr EXCEPT !.len = 0, !.buf = [i \in 1..tr.cap |-> Finite(0)]]

\* RedisPublishLatency::clear
clear(tr) ==
    [tr EXCEPT !.len = 0, !.idx = 0, !.buf = [i \in 1..tr.cap |-> Finite(0)]]

\* RedisPublishLatency::len
len(tr) == tr.len

\* snap.sort_by(partial_cmp): ascending and stable; element i goes to the
\* place after the smaller ones and the equal ones before it
SortAscending(s) ==
    LET place == [i \in 1..Len(s) |->
                     Cardinality({j \in 1..Len(s) :
                         \/ s[j].v < s[i].v
                         \/ s[j].v = s[i].v /\ j <= i})]
    IN  [r \in 1..Len(s) |-> s[CHOOSE i \in 1..Len(s) : place[i] = r]]

\* the index p99_ms reads: always the last one
P99IndexLast(n) == n - 1

\* ((0.99 * n as f64).ceil() as isize) - 1, clamped to [0, n - 1]
P99Index(n) ==
    LET idx == ((99 * n + 99) \div 100) - 1
    IN  Min(IF idx < 0 THEN 0 ELSE idx, n - 1)

\* RedisPublishLatency::p99_ms
p99_ms(tr) ==
    IF tr.len = 0 THEN None
    ELSE LET snap == SortAscending(SubSeq(tr.buf, 1, tr.len))
         IN  Some(snap[P99Index(Len(snap)) + 1])

\* nothing called on the tracker yet
LCallIdle(max_calls) ==
    [op |-> "none", ms |-> Finite(0), before |-> TrackerNew(1), p99 |-> None,
     accepted |-> << >>, n |-> 0, max_calls |-> max_calls]

\* a tracker after construction
TrackerInit(windows, max_calls) ==
    /\ \E w \in windows : tracker = TrackerNew(w)
    /\ lcall = LCallIdle(max_calls)

\* no gate method called yet
NoStatus == [ok |-> TRUE, reason |-> "None"]
GCallIdle ==
    [op |-> "none", status |-> NoStatus, todo |-> << >>, entry |-> GateNew,
     prev |-> "none", n |-> 0]

NumThreads == 2      \* threads that call gate methods at the same time

GateThreads == 1..NumThreads

\* a gate method a thread has entered: the stores it still has to do
RaceCall(op, status, stores) == [op |-> op, status |-> status, todo |-> stores]

\* no thread is inside the gate
RacingIdle == [t \in GateThreads |-> RaceCall("none", NoStatus, << >>)]

\* RedisSnapshot as poll_once builds it, ts apart
PollSnapshot(is_up, rtt, used, max, pct, pending, p99) ==
    [is_up |-> is_up, ping_rtt_ms |-> rtt, used_memory_bytes |-> used,
     maxmemory_bytes |-> max, used_memory_pct |-> pct, pending_total |-> pending,
     p99_cmd_ms |-> p99]

\* locals of poll_once(probe, p99_cmd_ms) before its first statement; probed
\* lists the probe methods called so far
PollNew(p99) ==
    [p99_cmd_ms |-> p99, pc |-> "ping", probed |-> << >>, failed |-> {}, ping_rtt_ms |-> None,
     memory |-> << None, None, None >>, returned |-> FALSE,
     snapshot |-> PollSnapshot(FALSE, None, None, None, None, None, None)]

\* poll_once is not being called
PollIdle == [PollNew(None) EXCEPT !.pc = "done"]

\* the accelerator side after construction
RedisInit(failovers) ==
    /\ failover \in failovers
    /\ gate = GateNew
    /\ redis_metrics = RedisMetricsNew
    /\ gcall = GCallIdle
    /\ racing = RacingIdle
    /\ poll = PollIdle

\* the accelerator side when only the writer is looked at
RedisIdle ==
    /\ RedisInit({[on_down |-> "DisableRedisTemporarily",
                   on_saturated |-> "StopAssigningNew"]})
    /\ EvaluatorIdle
    /\ TrackerInit({1}, 0)

(***************************************************************************)
(* The stream registry store (db/writer.rs, registry methods).             *)
(***************************************************************************)
MaxRegCalls == 2     \* registry methods called over the run
MaxDbTime == 1       \* the store's now() runs over 0..MaxDbTime

\* the shard ids of the lists the writer is configured with
ShardIds == {"A", "B"}

\* the exchanges ExchangeId::from_str knows
KnownExchanges == {"binance"}

\* StreamSpec: exchange, instrument, kind, transport
StreamSpec(exchange, instrument, kind, transport) ==
    [exchange |-> exchange, instrument |-> instrument, kind |-> kind,
     transport |-> transport]

StreamSpecs ==
    {StreamSpec("binance", "BTCUSDT", "depth", "ws"),
     StreamSpec("binance", "BTCUSDT", "trades", "ws"),
     StreamSpec("nowhere", "baz", "trades", "ws")}

\* StreamKnobs; flush_rows, chunk_rows, hard_cap_rows are usize and
\* flush_interval_ms is u64
StreamKnobs(no_db, no_redis, flush_rows, flush_interval_ms, chunk_rows, hard_cap_rows) ==
    [disable_db_writes |-> no_db, disable_redis_publishes |-> no_redis,
     flush_rows |-> flush_rows, flush_interval_ms |-> flush_interval_ms,
     chunk_rows |-> chunk_rows, hard_cap_rows |-> hard_cap_rows]

\* Integer widths are scaled down to what can be computed here: I32Half
\* stands for 2^31 and I64Half for 2^63, so that a usize above i32::MAX and
\* its wrap-around exist.
I32Half == 32768
I64Half == 536870912

KnobsSet ==
    {StreamKnobs(FALSE, FALSE, 3, 1, 2, 4),
     StreamKnobs(TRUE, FALSE, I32Half, 1, 2, 4)}

\* `x as i32` of a usize: the low bits, as a signed number
as_i32(x) == ((x + I32Half) % (2 * I32Half)) - I32Half

\* `x as i64` of a u64
as_i64(x) == ((x + I64Half) % (2 * I64Half)) - I64Half

\* StreamId::new(exchange, instrument, kind, transport): a function of the four
StreamId(spec) == << spec.exchange, spec.instrument, spec.kind, spec.transport >>

\* make_batch_key(exchange_id, transport, kind, instrument)
make_batch_key(spec) ==
    [exchange |-> spec.exchange, stream |-> spec.kind, symbol |-> spec.instrument]

\* the values bound by upsert_stream_registry, with now() for both timestamps
RegistryRow(spec, knobs, enabled, t) ==
    [stream_id |-> StreamId(spec), exchange |-> spec.exchange,
     instrument |-> spec.instrument, kind |-> spec.kind,
     transport |-> spec.transport, enabled |-> enabled,
     disable_db_writes |-> knobs.disable_db_writes,
     disable_redis_publishes |-> knobs.disable_redis_publishes,
     flush_rows |-> as_i32(knobs.flush_rows),
     flush_interval_ms |-> as_i64(knobs.flush_interval_ms),
     chunk_rows |-> as_i32(knobs.chunk_rows),
     hard_cap_rows |-> as_i32(knobs.hard_cap_rows),
     created_at |-> t, updated_at |-> t]

\* a conflict clause that takes every column of the proposed row
DoUpdateAll(old, excluded) == excluded

\* ON CONFLICT (stream_id) DO UPDATE SET ...: every column of the proposed
\* row but stream_id and created_at
DoUpdate(old, excluded) == [excluded EXCEPT !.created_at = old.created_at]

\* INSERT INTO stream_registry ... ON CONFLICT (stream_id) DO UPDATE
InsertOnConflict(rows, new) ==
    IF \E old \in rows : old.stream_id = new.stream_id
    THEN {IF old.stream_id = new.stream_id THEN DoUpdate(old, new) ELSE old :
              old \in rows}
    ELSE rows \cup {new}

\* an empty registry on every shard
RegistryEmpty == [rows |-> [id \in ShardIds |-> {}], now |-> 0]

\* no registry method called yet
NoArgs == [spec |-> StreamSpec("none", "none", "none", "none"),
           knobs |-> StreamKnobs(FALSE, FALSE, 0, 0, 0, 0), enabled |-> FALSE]
NoRegCall == [op |-> "none", args |-> NoArgs, result |-> "none"]

\* load_enabled_streams_from_registry not running: the index of the shard
\* scanned next, `seen`, `out`, and for each row pushed to `out`, in the order
\* of the pushes, its shard and stream_id
LoadIdle == [ix |-> 0, seen |-> {}, out |-> << >>, kept |-> << >>]
RCallIdle ==
    [op |-> "none", args |-> NoArgs, pc |-> "ret", shard_id |-> "none",
     result |-> "none", not_found |-> None, load |-> LoadIdle,
     before |-> RegistryEmpty.rows, prev |-> NoRegCall, n |-> 0]

\* the registry before any stream was registered
RegistryInit ==
    /\ registry = RegistryEmpty
    /\ rcall = RCallIdle

\* ---------------------------------------------------------------------
\* ingest/ws/ws_client.rs: WsClient::run_stream and its reconnect loop
\* ---------------------------------------------------------------------

MaxCycles == 4       \* connection cycles begun over a run with a test hook
ConnCycles == 2      \* connection cycles begun over a run without one
MaxFrames == 1       \* data frames the exchange sends over the run
MaxWsTime == 2       \* the clock of the stream task runs over 0..MaxWsTime
MaxTimeout == 1      \* ws_connection_timeout_seconds is in 0..MaxTimeout

\* u32::MAX, the width scaled down to two bits so that the counter of the
\* test hook can reach it
U32Max == 3

\* u32::saturating_add
saturating_add(x, y) == IF x + y > U32Max THEN U32Max ELSE x + y

\* WsTestHook::on_before_reconnect_attempt: the hook after the call and the
\* value returned
on_before_reconnect_attempt(h) ==
    LET attempts == saturating_add(h.reconnect_attempts, 1)
    IN  [hook |-> [h EXCEPT !.reconnect_attempts = attempts],
         go |-> IF h.max_reconnect_attempts = None THEN TRUE
                ELSE attempts <= h.max_reconnect_attempts[1]]

\* WsTestHook::on_disconnected
on_disconnected(h, reason) == [h EXCEPT !.disconnects = Append(@, reason)]

\* WsTestHook { max_reconnect_attempts, ..Default::default() }
WsTestHook(max) ==
    [max_reconnect_attempts |-> max, reconnect_attempts |-> 0, disconnects |-> << >>]

\* Option<&mut WsTestHook>
TestHooks ==
    {None} \cup {Some(WsTestHook(max)) : max \in {None} \cup {Some(n) : n \in 0..U32Max}}

\* what the loop reads of ExchangeConfig and of its arguments: whether a
\* limiter registry is supplied, ws_connection_timeout_seconds, and
\* ws_heartbeat_type lower-cased
WsConfigs ==
    [limiters : BOOLEAN, timeout_secs : 0..MaxTimeout,
     heartbeat_type : {"none", "ping", "other"}]

\* heartbeat_sender(): a driver only for the type "ping"
heartbeat_sender(cfg) == cfg.heartbeat_type = "ping"

\* the frames read.next() yields that are handed to on_event
DataFrames == {"Text", "Binary", "Ping", "Pong"}

\* what one connection cycle has done so far; inbox holds the frames that
\* have arrived on its socket and were not read yet, hb_tick is whether the
\* heartbeat interval has a tick ready
CycleNew ==
    [reconnect_acquired |-> 0, opened |-> FALSE, subscribe_acquired |-> 0,
     subscribe_sent |-> FALSE, delivered |-> 0,
     unsubscribes |-> 0, deadline |-> None, close_reason |-> "none",
     inbox |-> << >>, hb_tick |-> FALSE]

\* the stream task before run_stream is called; `budget` is what the run may
\* use: connection cycles, data frames, seconds
WsNew(cfg, hook, budget) ==
    [cfg |-> cfg, hook |-> hook, budget |-> budget, pc |-> "entry",
     result |-> "none", now |-> 0,
     cycle |-> CycleNew, cycles |-> 0, opened |-> 0, frames |-> 0,
     frame |-> "none", reasons |-> << >>]

\* no stream task
WsIdle ==
    ws = [WsNew([limiters |-> FALSE, timeout_secs |-> 0, heartbeat_type |-> "none"],
                None, [cycles |-> 0, frames |-> 0, time |-> 0])
          EXCEPT !.pc = "done"]

\* ---------------------------------------------------------------------
\* ingest/spec/template.rs: render_string
\* ---------------------------------------------------------------------

MaxTemplate == 6     \* characters of a template

\* a &str as the sequence of its characters
TemplateChars == {"<", ">", "a", "A"}

RECURSIVE StringsUpTo(_)
StringsUpTo(n) ==
    IF n = 0 THEN {<< >>}
    ELSE LET shorter == StringsUpTo(n - 1)
         IN  shorter \cup {Append(s, c) : s \in {t \in shorter : Len(t) = n - 1},
                                          c \in TemplateChars}

Templates == StringsUpTo(MaxTemplate)

\* Ctx: a map from key to value, as its set of entries
Binding(key, val) == [key |-> key, val |-> val]
CtxEmpty == {}
CtxPlain == {Binding(<< "a" >>, << "x" >>)}
CtxBracket == {Binding(<< "a" >>, << "<" >>)}
\* two values that are each the other's placeholder
CtxCycle == {Binding(<< "a" >>, << "<", "A", ">" >>),
             Binding(<< "A" >>, << "<", "a", ">" >>)}
Ctxs == {CtxEmpty, CtxPlain, CtxBracket, CtxCycle}

\* "<symbol>@depth" and the ctx that binds symbol to btcusdt
TemplateDepth ==
    << "<", "s", "y", "m", "b", "o", "l", ">", "@", "d", "e", "p", "t", "h" >>
CtxSymbol ==
    {Binding(<< "s", "y", "m", "b", "o", "l" >>,
             << "b", "t", "c", "u", "s", "d", "t" >>)}

\* ctx.get(key): None or Some(val)
ctx_get(ctx, key) ==
    IF \E b \in ctx : b.key = key
    THEN Some((CHOOSE b \in ctx : b.key = key).val)
    ELSE None

\* s[from..].find(c), as an index into s counted from 1; 0 when there is none
Find(s, from, c) ==
    IF \E k \in from..Len(s) : s[k] = c
    THEN CHOOSE k \in from..Len(s) : s[k] = c /\ \A j \in from..(k - 1) : s[j] # c
    ELSE 0

\* out.replace_range(start..=end, val)
replace_range(out, start, end, val) ==
    SubSeq(out, 1, start - 1) \o val \o SubSeq(out, end + 1, Len(out))

\* AppResult<String>: Ok(out), or the error with the keys its message lists
RenderOk(out) == [ok |-> TRUE, out |-> out, missing |-> {}]
RenderErr(missing) == [ok |-> FALSE, out |-> << >>, missing |-> missing]
RenderNone == [ok |-> FALSE, out |-> << >>, missing |-> {}]

\* a scan that gives up at the first key without a binding
on_missing_stop(r, key, end) ==
    [r EXCEPT !.missing = @ \cup {key}, !.pc = "finish"]

\* the else branch of the lookup: the key is noted and the scan goes on
\* after its '>'
on_missing(r, key, end) ==
    [r EXCEPT !.missing = @ \cup {key}, !.i = end + 1]

\* a scan that goes on after the value it has just put in
after_replace_skip(r, start, end, val) ==
    [r EXCEPT !.out = replace_range(@, start, end, val),
              !.i = start + Len(val)]

\* the then branch of the lookup: this occurrence is replaced and the scan
\* goes on from its start
after_replace(r, start, end, val) ==
    [r EXCEPT !.out = replace_range(@, start, end, val), !.i = start]

\* locals of render_string(input, ctx) before its first statement; prev is
\* what the caller keeps of an earlier call whose output is this input
RenderNew(input, ctx) ==
    [input |-> input, ctx |-> ctx, out |-> << >>, i |-> 1, missing |-> {},
     pc |-> "start", result |-> RenderNone, prev |-> None]

\* render_string is not being called
RenderIdle == rendering = [RenderNew(<< >>, CtxEmpty) EXCEPT !.pc = "done"]

\* nothing of the ingest side is running
IngestIdle == WsIdle /\ RenderIdle

\* ---------------------------------------------------------------------
\* appconfig.rs: validate_config and is_power_of_ten
\* ---------------------------------------------------------------------

MaxScale == 100      \* is_power_of_ten is asked about -MaxScale..MaxScale

\* the scales in the order validate_config goes through them
ScaleNames == << "price", "qty", "open_interest", "funding" >>

\* AppConfig, as far as validate_config reads it
AppConfig(id, version, streams, events, scales) ==
    [id |-> id, config_version |-> version, max_active_streams |-> streams,
     max_events_per_sec |-> events, scales |-> scales]

\* the scale values a config is given
ScaleGiven == {-10, 0, 1, 10, 500, 1000}

AppConfigs ==
    {AppConfig(id, version, streams, events, scales) :
        id \in {"", "app"}, version \in {0, 1}, streams \in {0, 1},
        events \in {0, 1},
        scales \in [{ScaleNames[k] : k \in 1..4} -> ScaleGiven]}

\* AppResult<()>: Ok(()), or the error with the field it is about, the text
\* of its message and the value the message quotes
ValidOk == [ok |-> TRUE, kind |-> "none", about |-> "none", text |-> "none", got |-> 0]
ValidErr(kind, about, text, got) ==
    [ok |-> FALSE, kind |-> kind, about |-> about, text |-> text, got |-> got]
ValidNone == ValidErr("none", "none", "none", 0)

\* while v % 10 == 0 { v /= 10 }, for v > 0
RECURSIVE strip_tens(_)
strip_tens(v) == IF v % 10 = 0 THEN strip_tens(v \div 10) ELSE v

\* a test that takes every positive multiple of ten
is_power_of_ten_loose(v) == v > 0 /\ (v = 1 \/ v % 10 = 0)

is_power_of_ten(v) == IF v <= 0 THEN FALSE ELSE strip_tens(v) = 1

\* the for loop over the scales, from the ix-th on
RECURSIVE validate_scales(_, _)
validate_scales(scales, ix) ==
    IF ix > Len(ScaleNames) THEN ValidOk
    ELSE LET name == ScaleNames[ix]
             value == scales[name]
         IN  IF value <= 0
             THEN ValidErr("InvalidConfig", name, "must be > 0", 0)
             ELSE IF ~is_power_of_ten(value)
             THEN ValidErr("InvalidConfig", name, "must be a power of 10", value)
             ELSE validate_scales(scales, ix + 1)

validate_config(cfg) ==
    IF cfg.id = "" THEN ValidErr("MissingConfig", "id", "none", 0)
    ELSE IF cfg.config_version = 0
    THEN ValidErr("InvalidConfig", "config_version", "must be >= 1", 0)
    ELSE IF cfg.max_active_streams = 0
    THEN ValidErr("InvalidConfig", "max_active_streams", "must be > 0", 0)
    ELSE IF cfg.max_events_per_sec = 0
    THEN ValidErr("InvalidConfig", "max_events_per_sec", "must be > 0", 0)
    ELSE validate_scales(cfg.scales, 1)

\* a call of validate_config(cfg) or of is_power_of_ten(v) before it runs
ValidationNew(op, cfg, v) ==
    [op |-> op, cfg |-> cfg, v |-> v, pc |-> "start", result |-> ValidNone,
     answer |-> FALSE]

NoAppConfig ==
    AppConfig("", 0, 0, 0, [n \in {ScaleNames[k] : k \in 1..4} |-> 0])

\* nothing of the application's start-up is running
AppIdle == validation = [ValidationNew("none", NoAppConfig, 0) EXCEPT !.pc = "done"]

Limits(rows, calls, time) == [rows |-> rows, calls |-> calls, time |-> time]

\* DbHandler::new: the semaphore starts with max_inflight_batches permits.
\* Every batch starts empty with knobs 0 < chunk_rows <= flush_rows.
InitWith(running, lim, shardLists, inflight) ==
    /\ tasks = running
    /\ limits = lim
    /\ shards \in shardLists
    /\ max_inflight_batches \in inflight
    /\ now = 0
    /\ permits = max_inflight_batches
    /\ metrics = MetricsZero
    /\ store = [t \in Tasks |-> << >>]
    /\ \E f \in 1..lim.rows : \E c \in 1..f :
           batch = [t \in Tasks |-> NewBatch(TaskKey(t), f, c, 0)]
    /\ next_row = [t \in Tasks |-> 1]
    /\ pc = [t \in Tasks |-> "idle"]
    /\ call = [t \in Tasks |-> CallIdle]
    /\ wb = [t \in Tasks |-> WbIdle]
    /\ route = NoRoute

Init ==
    /\ InitWith(Tasks, Limits(ConcRows, ConcCalls, ConcTime),
             {ShardsS2, ShardsNoCatchAll}, 1..MaxInflight)
    /\ RedisIdle
    /\ RegistryInit
    /\ IngestIdle
    /\ AppIdle

InCaller(t) == t \in tasks /\ pc[t] \in {"idle", "ret"}

\* what the run has used of its budget of rows and calls
RowsPushed == SumTo([t \in Tasks |-> next_row[t] - 1], NumTasks)

CallsMade == SumTo([t \in Tasks |-> call[t].n], NumTasks)

(***************************************************************************)
(* The environment: the clock and the task that owns the batch.            *)
(***************************************************************************)
Tick ==
    /\ now < limits.time
    /\ now' = now + 1
    /\ UNCHANGED << config, permits, metrics, store, batch, next_row, pc,
                    call, wb, route >>

\* batch.rows.push(row)
Push(t) ==
    /\ InCaller(t)
    /\ RowsPushed < limits.rows
    /\ batch' = [batch EXCEPT ![t].rows = Append(@, next_row[t])]
    /\ next_row' = [next_row EXCEPT ![t] = @ + 1]
    /\ pc' = [pc EXCEPT ![t] = "idle"]
    /\ call' = [call EXCEPT ![t] = [CallIdle EXCEPT !.n = call[t].n]]
    /\ UNCHANGED << config, now, permits, metrics, store, wb, route >>


\* db.write_batch_with_retry(&mut batch, retries, backoff); with retries = 0
\* it is the plain db.write_batch(&mut batch) of the usage pattern: one
\* call, whose result goes to the caller.
Call(t, retries, backoff) ==
    /\ InCaller(t)
    /\ CallsMade < limits.calls
    /\ call' = [call EXCEPT ![t] =
           [retries |-> retries, backoff |-> backoff, attempt |-> 0,
            result |-> "none", sleep_until |-> 0, slept |-> << >>,
            wb_calls |-> 1, n |-> call[t].n + 1, rows0 |-> batch[t].rows]]
    /\ wb' = [wb EXCEPT ![t] = WbIdle]
    /\ pc' = [pc EXCEPT ![t] = "wb_entry"]
    /\ UNCHANGED << config, now, permits, metrics, store, batch, next_row, route >>

(***************************************************************************)
(* DbHandler::write_batch.                                                 *)
(***************************************************************************)
IsErr(result) == result \notin {"none", "Ok"}

\* drop(permit) without giving the permit back
LeakPermit(p) == p

\* drop(permit): the permit goes back to the semaphore
DropPermit(p) == p + 1

\* an acquire that takes no permit
AcquireNoPermit(p) == p

\* inflight.acquire(): one permit is taken
AcquirePermit(p) == p - 1

\* an early return taken when the batch should flush
SkipsFlushInverted(b, t) == should_flush(b, t)

\* no early return at all
SkipsFlushNever(b, t) == FALSE

\* if !batch.should_flush() { return Ok(()) }
SkipsFlush(b, t) == ~should_flush(b, t)

\* a failed flush that clears the batch
BatchAfterFailureCleared(b) == [b EXCEPT !.rows = << >>]

\* a failed flush leaves the batch as it is
BatchAfterFailure(b) == b

\* a successful flush that keeps the old enqueued_at
BatchAfterSuccessStale(b, t) == [b EXCEPT !.rows = << >>]

\* batch.rows.clear(); batch.enqueued_at = Instant::now()
BatchAfterSuccess(b, t) == [b EXCEPT !.rows = << >>, !.enqueued_at = t]

\* a count of the chunks written instead of the rows
AddWrittenPerChunk(total, chunk) == total + 1

\* total_written += chunk.len() as u64
AddWritten(total, chunk) == total + Len(chunk)

\* the locals a write_batch call starts with; the batch as it was on entry is
\* kept for the statements about the call's effect
WbStart(t) ==
    [WbIdle EXCEPT !.rows0 = batch[t].rows, !.enq0 = batch[t].enqueued_at,
                   !.t0 = now, !.mark = Len(store[t])]

\* line 64-66: the batch is not due, return Ok(()) at once
WbSkip(t) ==
    /\ pc[t] = "wb_entry"
    /\ SkipsFlush(batch[t], now)
    /\ wb' = [wb EXCEPT ![t] = [WbStart(t) EXCEPT !.result = "Ok"]]
    /\ pc' = [pc EXCEPT ![t] = "wb_return"]
    /\ UNCHANGED << config, now, permits, metrics, store, batch, next_row,
                    call, route >>

\* line 64-72: the batch is due, go and wait for a permit
WbBegin(t) ==
    /\ pc[t] = "wb_entry"
    /\ ~SkipsFlush(batch[t], now)
    /\ wb' = [wb EXCEPT ![t] = [WbStart(t) EXCEPT !.flushed = TRUE]]
    /\ pc' = [pc EXCEPT ![t] = "acquire"]
    /\ UNCHANGED << config, now, permits, metrics, store, batch, next_row,
                    call, route >>

\* line 70-84: the permit is granted; queue depth = max - available.
\* (The semaphore is never closed, so acquire() never fails with Shutdown.)
WbAcquire(t) ==
    /\ pc[t] = "acquire"
    /\ AcquirePermit(permits) >= 0
    /\ permits' = AcquirePermit(permits)
    /\ wb' = [wb EXCEPT ![t].permit = TRUE]
    /\ metrics' = [metrics EXCEPT !.queue_depth = max_inflight_batches - permits']
    /\ pc' = [pc EXCEPT ![t] = "route"]
    /\ UNCHANGED << config, now, store, batch, next_row, call, route >>

\* an error return of write_batch: `?` or `return Err(..)` drops the permit
WbFail(t, err, failed_inc, stmts) ==
    /\ permits' = DropPermit(permits)
    /\ wb' = [wb EXCEPT ![t].permit = FALSE, ![t].result = err]
    /\ metrics' = [metrics EXCEPT !.failed_batch = @ + failed_inc]
    /\ batch' = [batch EXCEPT ![t] = BatchAfterFailure(@)]
    /\ store' = [store EXCEPT ![t] = @ \o stmts]
    /\ pc' = [pc EXCEPT ![t] = "wb_return"]
    /\ UNCHANGED << config, now, next_row, call, route >>

\* line 87-90: the router names a shard
WbRouteOk(t) ==
    /\ pc[t] = "route"
    /\ RouteBatch(shards, batch[t].key).ok
    /\ wb' = [wb EXCEPT ![t].shard_id = RouteBatch(shards, batch[t].key).id]
    /\ pc' = [pc EXCEPT ![t] = "conn"]
    /\ UNCHANGED << config, now, permits, metrics, store, batch, next_row,
                    call, route >>

\* line 87-90: no shard for the key, `?` returns the error
WbRouteErr(t) ==
    /\ pc[t] = "route"
    /\ ~RouteBatch(shards, batch[t].key).ok
    /\ WbFail(t, RouteBatch(shards, batch[t].key).err, 0, << >>)

\* line 92-122: the shard's pool is found and a connection acquired;
\* rows[0] names the table
WbConnOk(t) ==
    /\ pc[t] = "conn"
    /\ IF batch[t].rows = << >>
       THEN \* batch.rows[0] panics; unwinding drops the permit
            /\ pc' = [pc EXCEPT ![t] = "panic"]
            /\ permits' = DropPermit(permits)
            /\ wb' = [wb EXCEPT ![t].permit = FALSE]
       ELSE /\ pc' = [pc EXCEPT ![t] = "insert"]
            /\ permits' = permits
            /\ wb' = [wb EXCEPT ![t].i = 1, ![t].total_written = 0]
    /\ UNCHANGED << config, now, metrics, store, batch, next_row, call, route >>

\* line 92-106: pool_by_id, shards_snapshot or pool.acquire() fails and `?`
\* returns the error (AppError::Sqlx for acquire); failed_batch is not
\* touched on this path
WbConnErr(t) ==
    /\ pc[t] = "conn"
    /\ WbFail(t, "SqlxAcquire", 0, << >>)

\* The chunk the loop of line 124 is at.
CurrentChunk(t) == chunks(batch[t].rows, batch[t].chunk_rows)[wb[t].i]

NumChunks(t) == Len(chunks(batch[t].rows, batch[t].chunk_rows))

Stmt(rows, ok) == [rows |-> rows, ok |-> ok]

\* line 147-155: the INSERT of one chunk succeeds, more chunks follow
WbInsertOk(t) ==
    /\ pc[t] = "insert"
    /\ wb[t].i < NumChunks(t)
    /\ store' = [store EXCEPT ![t] = Append(@, Stmt(CurrentChunk(t), TRUE))]
    /\ wb' = [wb EXCEPT ![t].i = @ + 1,
                        ![t].total_written = AddWritten(@, CurrentChunk(t))]
    /\ UNCHANGED << config, now, permits, metrics, batch, next_row, pc,
                    call, route >>

\* line 147-171: the INSERT of the last chunk succeeds: drop the permit,
\* count the batch and its rows, clear the batch, return Ok(())
WbInsertLast(t) ==
    /\ pc[t] = "insert"
    /\ wb[t].i = NumChunks(t)
    /\ LET total == AddWritten(wb[t].total_written, CurrentChunk(t))
       IN  /\ store' = [store EXCEPT ![t] = Append(@, Stmt(CurrentChunk(t), TRUE))]
           /\ permits' = DropPermit(permits)
           /\ metrics' = [metrics EXCEPT !.batches_written = @ + 1,
                                         !.rows_written = @ + total]
           /\ wb' = [wb EXCEPT ![t].permit = FALSE, ![t].result = "Ok",
                               ![t].total_written = total]
    /\ batch' = [batch EXCEPT ![t] = BatchAfterSuccess(@, now)]
    /\ pc' = [pc EXCEPT ![t] = "wb_return"]
    /\ UNCHANGED << config, now, next_row, call, route >>

\* line 147-152: the INSERT of a chunk fails: failed_batch += 1, drop the
\* permit, return the error; the rows stay in the batch
WbInsertErr(t) ==
    /\ pc[t] = "insert"
    /\ WbFail(t, "SqlxExecute", 1, << Stmt(CurrentChunk(t), FALSE) >>)


(***************************************************************************)
(* DbHandler::write_batch_with_retry: the match on write_batch's result.   *)
(***************************************************************************)
\* a sleep that grows with the attempt number
SleepLinear(backoff, attempt) == backoff * (attempt + 1)

\* tokio::time::sleep(backoff): the same duration at every attempt
SleepFor(backoff, attempt) == backoff

\* line 188: Ok(()) => return Ok(())
RetryOk(t) ==
    /\ pc[t] = "wb_return"
    /\ wb[t].result = "Ok"
    /\ call' = [call EXCEPT ![t].result = "Ok"]
    /\ wb' = [wb EXCEPT ![t] = WbIdle]
    /\ pc' = [pc EXCEPT ![t] = "ret"]
    /\ UNCHANGED << config, now, permits, metrics, store, batch, next_row, route >>

\* line 189-194: Err(e) if attempt < retries: retried_batch += 1,
\* attempt += 1, sleep(backoff), continue
RetryAgain(t) ==
    /\ pc[t] = "wb_return"
    /\ IsErr(wb[t].result)
    /\ call[t].attempt < call[t].retries
    /\ metrics' = [metrics EXCEPT !.retried_batch = @ + 1]
    /\ LET d == SleepFor(call[t].backoff, call[t].attempt + 1)
       IN  call' = [call EXCEPT ![t].attempt = @ + 1,
                                ![t].sleep_until = now + d,
                                ![t].slept = Append(@, d)]
    /\ wb' = [wb EXCEPT ![t] = WbIdle]
    /\ pc' = [pc EXCEPT ![t] = "sleep"]
    /\ UNCHANGED << config, now, permits, store, batch, next_row, route >>

\* line 195: Err(e) => return Err(e)
RetryGiveUp(t) ==
    /\ pc[t] = "wb_return"
    /\ IsErr(wb[t].result)
    /\ ~(call[t].attempt < call[t].retries)
    /\ call' = [call EXCEPT ![t].result = wb[t].result]
    /\ wb' = [wb EXCEPT ![t] = WbIdle]
    /\ pc' = [pc EXCEPT ![t] = "ret"]
    /\ UNCHANGED << config, now, permits, metrics, store, batch, next_row, route >>

\* line 192-193, 187: the sleep is over, write_batch is called again
Wake(t) ==
    /\ pc[t] = "sleep"
    /\ now >= call[t].sleep_until
    /\ call' = [call EXCEPT ![t].wb_calls = @ + 1, ![t].sleep_until = 0]
    /\ pc' = [pc EXCEPT ![t] = "wb_entry"]
    /\ UNCHANGED << config, now, permits, metrics, store, batch, next_row,
                    wb, route >>

(***************************************************************************)
(* The writer: tasks sharing one DbHandler.                                *)
(***************************************************************************)
\* the steps of write_batch and its return to the caller
WriteBatch(t) ==
    \/ WbSkip(t)
    \/ WbBegin(t)
    \/ WbAcquire(t)
    \/ WbRouteOk(t)
    \/ WbRouteErr(t)
    \/ WbConnOk(t)
    \/ WbConnErr(t)
    \/ WbInsertOk(t)
    \/ WbInsertLast(t)
    \/ WbInsertErr(t)
    \/ RetryOk(t)
    \/ RetryGiveUp(t)

\* tasks that push rows and call write_batch (no retry)
Next ==
    \/ Tick
    \/ \E t \in Tasks : Push(t)
    \/ \E t \in Tasks : Call(t, 0, 0)
    \/ \E t \in Tasks : WriteBatch(t)

Spec == Init /\ [][Next]_vars

(***************************************************************************)
(* The shard router alone: any shard list, any key.                        *)
(***************************************************************************)
InitRoute ==
    /\ InitWith({}, Limits(1, 0, 0), AllShardLists, {MaxInflight})
    /\ RedisIdle
    /\ RegistryInit
    /\ IngestIdle
    /\ AppIdle

\* the routing call of write_batch for a batch with key k
AskRoute(k) ==
    /\ route' = [key |-> k, result |-> RouteBatch(shards, k), asked |-> TRUE]
    /\ UNCHANGED << config, now, permits, metrics, store, batch, next_row,
                    pc, call, wb >>

NextRoute == \E k \in Keys : AskRoute(k)

SpecRoute == InitRoute /\ [][NextRoute]_vars


(***************************************************************************)
(* The writer with one task: one batch, flushed again and again.           *)
(***************************************************************************)
InitOne ==
    /\ InitWith({1}, Limits(MaxRows, MaxCalls, MaxTime),
             {ShardsS2, ShardsNoCatchAll}, {MaxInflight})
    /\ RedisIdle
    /\ RegistryInit
    /\ IngestIdle
    /\ AppIdle

\* a task that pushes rows and calls write_batch_with_retry
NextOne ==
    \/ Tick
    \/ \E t \in Tasks : Push(t)
    \/ \E t \in Tasks : \E r \in 0..MaxRetries : \E d \in 1..MaxBackoff : Call(t, r, d)
    \/ \E t \in Tasks : WriteBatch(t)
    \/ \E t \in Tasks : RetryAgain(t)
    \/ \E t \in Tasks : Wake(t)

SpecOne == InitOne /\ [][NextOne]_vars


(***************************************************************************)
(* Properties.                                                             *)
(***************************************************************************)
\* a task between the acquire of its permit and the permit's release
InFlight(t) == pc[t] \in {"route", "conn", "insert"}

\* a write_batch call that passed the flush check and has not returned
InProgress(t) == pc[t] = "acquire" \/ InFlight(t)

\* the concatenation of the rows of a sequence of INSERT statements
RECURSIVE RowsOf(_)
RowsOf(stmts) ==
    IF stmts = << >> THEN << >> ELSE Head(stmts).rows \o RowsOf(Tail(stmts))

\* the statements the current write_batch call of t has issued
IssuedByCall(t) == SubSeq(store[t], wb[t].mark + 1, Len(store[t]))

\* C1: with tasks calling write_batch concurrently on one DbHandler, at most
\* max_inflight_batches calls are between the acquire and the release of a
\* permit, and routing, pool acquisition and INSERT are done only by a task
\* that holds a permit of the semaphore.
C1_InflightBounded ==
    /\ Cardinality({t \in Tasks : InFlight(t)}) <= max_inflight_batches
    /\ \A t \in Tasks : InFlight(t) => wb[t].permit
    /\ permits >= 0
    /\ permits + Cardinality({t \in Tasks : wb[t].permit}) = max_inflight_batches

\* C1 witness: the semaphore is exhausted: one task is executing its INSERT
\* with the last permit while another waits in acquire.
C1_Witness ==
    \E t, u \in Tasks :
        /\ t # u
        /\ pc[t] = "insert"
        /\ pc[u] = "acquire"
        /\ permits = 0

\* C2: a write_batch call that acquired a permit has released it when it
\* returns, whatever the exit path: the available permits are always
\* max_inflight_batches less the calls between acquire and return, and all
\* of them when no call is in progress.
C2_PermitReleased ==
    /\ permits = max_inflight_batches - Cardinality({t \in Tasks : InFlight(t)})
    /\ \A t \in Tasks : pc[t] = "wb_return" => ~wb[t].permit
    /\ (\A t \in Tasks : ~InProgress(t)) => permits = max_inflight_batches

\* C2 witness: a call that had its permit returned the pool-acquire error,
\* no call is in progress and every permit is back.
C2_Witness ==
    \E t \in Tasks :
        /\ pc[t] = "wb_return"
        /\ wb[t].flushed
        /\ wb[t].result = "SqlxAcquire"
        /\ \A u \in Tasks : ~InProgress(u)
        /\ permits = max_inflight_batches

\* the places of a task inside write_batch_with_retry before any attempt
\* has succeeded
Retrying(t) ==
    \/ pc[t] \in {"wb_entry", "acquire", "route", "conn", "insert", "sleep"}
    \/ pc[t] = "wb_return" /\ IsErr(wb[t].result)

\* C3: when write_batch returns Err the batch has the rows (same order) and
\* the enqueued_at it had before the call; so through write_batch_with_retry
\* the batch holds the same rows at every attempt until one succeeds, and
\* still holds them when the wrapper returns Err.
C3_ErrKeepsBatch ==
    \A t \in Tasks :
        /\ (pc[t] = "wb_return" /\ IsErr(wb[t].result)) =>
               /\ batch[t].rows = wb[t].rows0
               /\ batch[t].enqueued_at = wb[t].enq0
        /\ Retrying(t) => batch[t].rows = call[t].rows0
        /\ (pc[t] = "ret" /\ IsErr(call[t].result)) =>
               batch[t].rows = call[t].rows0

\* C3 witness: the wrapper returned the INSERT error after a retry, with
\* two rows still in the batch.
C3_Witness ==
    \E t \in Tasks :
        /\ pc[t] = "ret"
        /\ call[t].result = "SqlxExecute"
        /\ call[t].wb_calls = 2
        /\ Len(batch[t].rows) >= 2

\* the step by which the write_batch call of t returns Ok after a flush
FlushReturnsOk(t) ==
    /\ pc[t] # "wb_return"
    /\ pc'[t] = "wb_return"
    /\ wb'[t].flushed
    /\ wb'[t].result = "Ok"

\* C4: when write_batch flushes and returns Ok, on return the batch is
\* empty, enqueued_at is a time not earlier than the start of the call,
\* batches_written has grown by exactly 1 and rows_written by exactly the
\* number of rows the batch held when the call started.
C4_SuccessEffects ==
    [][\A t \in Tasks : FlushReturnsOk(t) =>
          /\ batch'[t].rows = << >>
          /\ batch'[t].enqueued_at >= wb[t].t0
          /\ batch'[t].enqueued_at = now'
          /\ metrics'.batches_written = metrics.batches_written + 1
          /\ metrics'.rows_written = metrics.rows_written + Len(wb[t].rows0)
      ]_vars

\* C4 witness: a flush of three rows in more than one chunk has returned Ok
\* at a time later than the batch's creation.
C4_Witness ==
    \E t \in Tasks :
        /\ pc[t] = "wb_return"
        /\ wb[t].flushed
        /\ wb[t].result = "Ok"
        /\ Len(wb[t].rows0) = 3
        /\ Len(IssuedByCall(t)) = 2
        /\ batch[t].enqueued_at > wb[t].enq0

\* the step by which t leaves the entry of write_batch
LeavesEntry(t) == pc[t] = "wb_entry" /\ pc'[t] # "wb_entry"

\* the call returns Ok at once and nothing else has changed
ReturnsUntouched(t) ==
    /\ pc'[t] = "wb_return"
    /\ wb'[t].result = "Ok"
    /\ batch' = batch
    /\ store' = store
    /\ permits' = permits
    /\ metrics' = metrics

C6_EmptyBatchNoWork ==
    [][\A t \in Tasks :
          /\ (LeavesEntry(t) /\ batch[t].rows = << >>) => ReturnsUntouched(t)
          /\ pc'[t] # "panic"
      ]_vars

\* C6 witness: a call on an empty batch whose interval had elapsed has
\* returned Ok.
C6_Witness ==
    \E t \in Tasks :
        /\ pc[t] = "wb_return"
        /\ wb[t].rows0 = << >>
        /\ wb[t].t0 - wb[t].enq0 >= batch[t].flush_interval_ms
        /\ wb[t].result = "Ok"


\* a task that is inside write_batch_with_retry or has just returned from it
InWrapper(t) == pc[t] # "idle"

\* the one call made so far is t's, with retries = 1, and it returned Ok
\* at its second attempt
OneFailureThenSuccess(t) ==
    /\ CallsMade = 1
    /\ pc[t] = "ret"
    /\ call[t].retries = 1
    /\ call[t].wb_calls = 2
    /\ call[t].result = "Ok"

\* C7: write_batch_with_retry(batch, retries, backoff) makes at most
\* retries + 1 calls of write_batch: it returns Ok at the first attempt that
\* succeeds and an error only when all retries + 1 attempts failed, sleeps
\* the same backoff before every retry, and increments retried_batch once
\* per failed attempt that is followed by another; so one failure then
\* success with retries = 1 gives Ok with retried_batch +1, failed_batch +1
\* and batches_written +1.
C7_RetryBounded ==
    \A t \in Tasks : InWrapper(t) =>
        /\ call[t].wb_calls <= call[t].retries + 1
        /\ pc[t] # "sleep" => call[t].wb_calls = call[t].attempt + 1
        /\ (pc[t] = "ret" /\ IsErr(call[t].result)) =>
               call[t].wb_calls = call[t].retries + 1
        /\ Len(call[t].slept) = call[t].attempt
        /\ \A i \in 1..Len(call[t].slept) : call[t].slept[i] = call[t].backoff
        /\ CallsMade = 1 => metrics.retried_batch = call[t].attempt
        /\ OneFailureThenSuccess(t) =>
               /\ metrics.retried_batch = 1
               /\ metrics.failed_batch = 1
               /\ metrics.batches_written = 1

StmtsWith(t, r) ==
    {i \in 1..Len(store[t]) :
        \E j \in 1..Len(store[t][i].rows) : store[t][i].rows[j] = r}

\* the first of a non-empty set of indexes
First(S) == CHOOSE i \in S : \A j \in S : i <= j

\* C9: within one key, row order is preserved into the store: for rows a
\* and b of the key with a appended before b, the first INSERT containing a
\* is issued no later than the first INSERT containing b, across the chunks
\* of a flush and across the successive flushes of the batch.
C9_OrderPreserved ==
    \A t \in Tasks :
        \A a, b \in 1..(next_row[t] - 1) :
            (a < b /\ StmtsWith(t, b) # {}) =>
                /\ StmtsWith(t, a) # {}
                /\ First(StmtsWith(t, a)) <= First(StmtsWith(t, b))

\* C9 witness: two flushes of one batch have succeeded; the first wrote rows
\* 1 and 2 in two chunks, the second row 3.
C9_Witness ==
    \E t \in Tasks :
        /\ metrics.batches_written = 2
        /\ Len(store[t]) >= 3
        /\ First(StmtsWith(t, 1) \cup {Len(store[t]) + 1})
               < First(StmtsWith(t, 2) \cup {Len(store[t]) + 1})
        /\ First(StmtsWith(t, 2) \cup {Len(store[t]) + 1})
               < First(StmtsWith(t, 3) \cup {Len(store[t]) + 1})
        /\ StmtsWith(t, 3) # {}

\* the shards of the list that have a rule matching key k
MatchingShards(k) ==
    {i \in 1..Len(shards) :
        \E r \in 1..Len(shards[i].rules) :
            /\ shards[i].rules[r].exchange \in {"*", k.exchange}
            /\ shards[i].rules[r].stream \in {"*", k.stream}
            /\ shards[i].rules[r].symbol \in {"*", k.symbol}}

\* C10: shard_id_for(exchange, kind, symbol) returns the id of the earliest
\* shard in declaration order with at least one rule whose three fields each
\* are '*' or equal the argument, and fails with NoShardForKey when there is
\* none; with shards [A: (binance, depth, BTCUSDT); B: (*, *, *)] every key
\* other than (binance, depth, BTCUSDT) routes to B.
C10_EarliestShard ==
    route.asked =>
        LET k == route.key
            M == MatchingShards(k)
        IN  /\ M = {} => (~route.result.ok /\ route.result.err = "NoShardForKey")
            /\ M # {} => (route.result.ok /\ route.result.id = shards[First(M)].id)
            /\ shards = ShardsS2 =>
                   /\ route.result.ok
                   /\ route.result.id =
                          IF k = [exchange |-> "binance", stream |-> "depth",
                                  symbol |-> "BTCUSDT"]
                          THEN "A" ELSE "B"

\* C10 witness: with the shards of scenario S2 the key (foo, bar, baz) was
\* routed to the catch-all B.
C10_Witness ==
    /\ route.asked
    /\ shards = ShardsS2
    /\ route.key = [exchange |-> "foo", stream |-> "bar", symbol |-> "baz"]
    /\ route.result = RouteOk("B")

\* write_batch's result is an error of the store: no pooled connection, or
\* a chunk INSERT that failed
IsStoreErr(result) == result \in {"SqlxAcquire", "SqlxExecute"}

\* task t takes a step of write_batch, from its entry to its return
WbStep(t) ==
    /\ pc[t] \in {"wb_entry", "acquire", "route", "conn", "insert"}
    /\ << pc[t], wb[t] >> # << pc'[t], wb'[t] >>

\* C11: every write_batch call that fails with a store error (no pooled
\* connection, or a failed chunk INSERT) increments failed_batch by exactly
\* one, and a call that returns Ok never increments it.
C11_StoreErrorCounted ==
    [][\A t \in Tasks : WbStep(t) =>
          IF pc'[t] = "wb_return" /\ IsStoreErr(wb'[t].result)
          THEN metrics'.failed_batch = metrics.failed_batch + 1
          ELSE metrics'.failed_batch = metrics.failed_batch]_vars

(***************************************************************************)
(* The accelerator gate: the health loop and the operator call its methods *)
(* one after the other; each method is a sequence of stores.               *)
(***************************************************************************)
\* no gate method is executing
GateReturned == gcall.todo = << >>

\* a gate method is entered: its stores are still to be done
GateEnter(op, status, stores) ==
    /\ GateReturned
    /\ gcall.n < MaxGateCalls
    /\ gcall' = [op |-> op, status |-> status, todo |-> stores, entry |-> gate,
                 prev |-> gcall.op, n |-> gcall.n + 1]
    /\ UNCHANGED << beside_gate, failover, gate, redis_metrics >>

\* gate.apply_health(&status)
ApplyHealth(status) == GateEnter("apply_health", status, apply_health(failover, status))

\* gate.disable_manual()
DisableManual == GateEnter("disable_manual", NoStatus, disable_manual)

\* gate.enable_manual()
EnableManual == GateEnter("enable_manual", NoStatus, enable_manual)

\* the store the executing method is at
NextStore(field) == gcall.todo # << >> /\ Head(gcall.todo).field = field

\* self.enabled.store(v, Ordering::Relaxed)
StoreEnabled ==
    /\ NextStore("enabled")
    /\ gate' = [gate EXCEPT !.enabled = Head(gcall.todo).value]
    /\ gcall' = [gcall EXCEPT !.todo = Tail(@)]
    /\ UNCHANGED << beside_gate, failover, redis_metrics >>

\* self.stop_assigning_new.store(v, Ordering::Relaxed)
StoreStopAssigningNew ==
    /\ NextStore("stop_assigning_new")
    /\ gate' = [gate EXCEPT !.stop_assigning_new = Head(gcall.todo).value]
    /\ gcall' = [gcall EXCEPT !.todo = Tail(@)]
    /\ UNCHANGED << beside_gate, failover, redis_metrics >>

\* *self.last_disable.lock() = v
StoreLastDisable ==
    /\ NextStore("last_disable")
    /\ gate' = [gate EXCEPT !.last_disable = Head(gcall.todo).value]
    /\ gcall' = [gcall EXCEPT !.todo = Tail(@)]
    /\ UNCHANGED << beside_gate, failover, redis_metrics >>

\* self.metrics.set_enabled_state(v)
SetEnabledState ==
    /\ NextStore("enabled_state")
    /\ redis_metrics' = [redis_metrics EXCEPT !.enabled_state = Head(gcall.todo).value]
    /\ gcall' = [gcall EXCEPT !.todo = Tail(@)]
    /\ UNCHANGED << beside_gate, failover, gate >>

\* self.metrics.disable_with_reason(r): enabled_state = 0 and one event
DisableWithReason ==
    /\ NextStore("disable_with_reason")
    /\ redis_metrics' =
           [redis_metrics EXCEPT !.enabled_state = FALSE,
                                 !.disable_events_total[Head(gcall.todo).value] = @ + 1]
    /\ gcall' = [gcall EXCEPT !.todo = Tail(@)]
    /\ UNCHANGED << beside_gate, failover, gate >>

\* self.metrics.disable_events_total.with_label_values(&[r]).inc()
IncDisableEvents ==
    /\ NextStore("disable_events_total")
    /\ redis_metrics' =
           [redis_metrics EXCEPT !.disable_events_total[Head(gcall.todo).value] = @ + 1]
    /\ gcall' = [gcall EXCEPT !.todo = Tail(@)]
    /\ UNCHANGED << beside_gate, failover, gate >>

InitGate ==
    /\ InitWith({}, Limits(1, 0, 0), {ShardsS2}, {MaxInflight})
    /\ RedisInit(FailoverConfig)
    /\ EvaluatorIdle
    /\ TrackerInit({1}, 0)
    /\ RegistryInit
    /\ IngestIdle
    /\ AppIdle

NextGate ==
    \/ \E status \in HealthStatus : ApplyHealth(status)
    \/ DisableManual
    \/ EnableManual
    \/ StoreEnabled
    \/ StoreStopAssigningNew
    \/ StoreLastDisable
    \/ SetEnabledState
    \/ DisableWithReason
    \/ IncDisableEvents

SpecGate == InitGate /\ [][NextGate]_vars

\* the gate has not been touched since RedisGate::new
GateFresh == gcall.op = "none"

\* C12: in every reachable state of the gate, can_publish() equals the
\* enabled flag and can_assign_new_symbol() equals enabled and not
\* stop_assigning_new, so can_assign_new_symbol() is never true while
\* can_publish() is false; a freshly constructed gate has both predicates
\* true and no disable reason.
C12_GatePredicates ==
    /\ can_publish(gate) = gate.enabled
    /\ can_assign_new_symbol(gate) = (gate.enabled /\ ~gate.stop_assigning_new)
    /\ can_assign_new_symbol(gate) => can_publish(gate)
    /\ GateFresh =>
           /\ can_publish(gate)
           /\ can_assign_new_symbol(gate)
           /\ last_disable_reason(gate) = "None"

\* C12 witness: a method that disables the gate has stored enabled = false
\* and not yet stop_assigning_new = true: both flags are false
C12_Witness ==
    /\ ~GateReturned
    /\ ~gate.enabled
    /\ ~gate.stop_assigning_new

\* apply_health(status) has returned
HealthApplied(ok, reasons) ==
    /\ GateReturned
    /\ gcall.op = "apply_health"
    /\ gcall.status.ok = ok
    /\ gcall.status.reason \in reasons

\* C13: for every apply_health call with a non-ok status whose reason is
\* Down, Latency, Manual or absent, from any gate state and under either
\* on_down policy, when the call returns can_publish() is false,
\* can_assign_new_symbol() is false and last_disable_reason() is the status
\* reason (Down when the reason is absent).
C13_DownDisables ==
    HealthApplied(FALSE, {"Down", "Latency", "Manual", "None"}) =>
        /\ ~can_publish(gate)
        /\ ~can_assign_new_symbol(gate)
        /\ last_disable_reason(gate) =
               IF gcall.status.reason = "None" THEN "Down" ELSE gcall.status.reason

\* C13 witness: under PauseAndRetry a non-ok status without a reason was
\* applied to a gate that was publishing, and the gate is disabled as Down
C13_Witness ==
    /\ HealthApplied(FALSE, {"None"})
    /\ failover.on_down = "PauseAndRetry"
    /\ can_publish(gcall.entry)
    /\ gcall.prev = "enable_manual"
    /\ last_disable_reason(gate) = "Down"

\* C14 as claimed: after apply_health with a non-ok status whose reason is
\* MaxMemory, MaxPending or Saturated, under any on_saturated policy and
\* whatever was applied before, can_publish() is true and
\* can_assign_new_symbol() is false.
C14_SaturationPublishes ==
    HealthApplied(FALSE, {"MaxMemory", "MaxPending", "Saturated"}) =>
        /\ can_publish(gate)
        /\ ~can_assign_new_symbol(gate)

\* C14 amended: after apply_health with a non-ok status whose reason is
\* MaxMemory, MaxPending or Saturated, under any on_saturated policy,
\* can_assign_new_symbol() is false and can_publish() is what it was before
\* the call: true on a gate that was publishing, still false on a gate that
\* was disabled; the disable reason is left as it was.
C14_SaturationKeepsPublish ==
    HealthApplied(FALSE, {"MaxMemory", "MaxPending", "Saturated"}) =>
        /\ can_publish(gate) = can_publish(gcall.entry)
        /\ ~can_assign_new_symbol(gate)
        /\ last_disable_reason(gate) = last_disable_reason(gcall.entry)

\* C14 witness: MaxPending under StopAssigningNew was applied to a gate that
\* was publishing and assigning: it still publishes, and assigns no more
C14_Witness ==
    /\ HealthApplied(FALSE, {"MaxPending"})
    /\ failover.on_saturated = "StopAssigningNew"
    /\ can_assign_new_symbol(gcall.entry)
    /\ can_publish(gate)
    /\ ~can_assign_new_symbol(gate)

\* C15: after apply_health with an ok status, from any gate state (disabled
\* by health, saturated, or manually disabled), can_publish() and
\* can_assign_new_symbol() are both true and last_disable_reason() is None.
C15_HealthyEnables ==
    HealthApplied(TRUE, OptReason) =>
        /\ can_publish(gate)
        /\ can_assign_new_symbol(gate)
        /\ last_disable_reason(gate) = "None"

\* C15 witness: an ok status was applied to a gate disabled for latency
C15_Witness ==
    /\ HealthApplied(TRUE, OptReason)
    /\ ~can_publish(gcall.entry)
    /\ last_disable_reason(gcall.entry) = "Latency"
    /\ can_assign_new_symbol(gate)

\* C16: manual overrides are not sticky: disable_manual() makes both
\* predicates false with reason Manual and enable_manual() makes both true
\* with no reason, but the next apply_health overrides them: a healthy
\* status after disable_manual() re-enables publishing and a Down or
\* Latency status after enable_manual() disables it.
C16_ManualNotSticky ==
    GateReturned =>
        /\ gcall.op = "disable_manual" =>
               /\ ~can_publish(gate)
               /\ ~can_assign_new_symbol(gate)
               /\ last_disable_reason(gate) = "Manual"
        /\ gcall.op = "enable_manual" =>
               /\ can_publish(gate)
               /\ can_assign_new_symbol(gate)
               /\ last_disable_reason(gate) = "None"
        /\ (HealthApplied(TRUE, OptReason) /\ gcall.prev = "disable_manual") =>
               can_publish(gate)
        /\ (HealthApplied(FALSE, {"Down", "Latency"}) /\ gcall.prev = "enable_manual") =>
               ~can_publish(gate)

\* C16 witness: disable_manual() was followed by a healthy status and the
\* gate publishes again, the Manual reason gone
C16_Witness ==
    /\ HealthApplied(TRUE, OptReason)
    /\ gcall.prev = "disable_manual"
    /\ last_disable_reason(gcall.entry) = "Manual"
    /\ can_publish(gate)
    /\ last_disable_reason(gate) = "None"

(***************************************************************************)
(* The health evaluator, asked about a snapshot.                           *)
(***************************************************************************)
\* ev.evaluate(snapshot)
Evaluate ==
    /\ ~evaluation.asked
    /\ evaluation' = [evaluation EXCEPT
                          !.status = evaluate(evaluation.cap, evaluation.snapshot),
                          !.asked = TRUE]
    /\ UNCHANGED beside_evaluator

InitEval ==
    /\ InitWith({}, Limits(1, 0, 0), {ShardsS2}, {MaxInflight})
    /\ RedisInit({[on_down |-> "DisableRedisTemporarily",
                   on_saturated |-> "StopAssigningNew"]})
    /\ \E cap \in CapacityConfig : \E snapshot \in RedisSnapshot :
           evaluation = EvaluatorNew(cap, snapshot)
    /\ TrackerInit({1}, 0)
    /\ RegistryInit
    /\ IngestIdle
    /\ AppIdle

NextEval == Evaluate

SpecEval == InitEval /\ [][NextEval]_vars

\* an f64 measurement is known and strictly above its threshold
FloatAbove(x, threshold) ==
    \E y \in {Finite(v) : v \in (2 * threshold + 1)..(2 * MaxThreshold + 1)} \cup {PosInf} :
        x = Some(y)

\* the backlog is known and strictly above its threshold
CountAbove(x, threshold) ==
    \E n \in (threshold + 1)..(MaxThreshold + 1) : x = Some(n)

\* the rules in priority order and whether each fires on the snapshot
RuleOrder == << "Down", "MaxMemory", "MaxPending", "Latency" >>

RuleFires(rule, cap, s) ==
    CASE rule = "Down" -> ~s.is_up
      [] rule = "MaxMemory" -> FloatAbove(s.used_memory_pct, cap.max_memory_pct)
      [] rule = "MaxPending" -> CountAbove(s.pending_total, cap.max_pending)
      [] rule = "Latency" -> FloatAbove(s.p99_cmd_ms, cap.max_p99_cmd_ms)

\* C17: evaluate returns the first rule that fires in the order Down
\* (snapshot not up), MaxMemory, MaxPending, Latency, and healthy otherwise;
\* a threshold rule fires only when its measurement is known and strictly
\* greater than its threshold, so an unknown measurement or one equal to the
\* threshold never fires; ok is true exactly when the reason is None.
C17_FirstRuleWins ==
    evaluation.asked =>
        LET F == {i \in 1..Len(RuleOrder) :
                      RuleFires(RuleOrder[i], evaluation.cap, evaluation.snapshot)}
            st == evaluation.status
        IN  /\ F = {} => st.reason = "None"
            /\ F # {} => st.reason = RuleOrder[First(F)]
            /\ st.ok <=> st.reason = "None"

\* C17 witness: memory is exactly at its threshold, the backlog is unknown
\* and the latency is half a unit above its threshold: the verdict is Latency
C17_Witness ==
    /\ evaluation.asked
    /\ evaluation.snapshot.is_up
    /\ evaluation.snapshot.used_memory_pct = Some(Finite(2 * evaluation.cap.max_memory_pct))
    /\ evaluation.snapshot.pending_total = None
    /\ evaluation.snapshot.p99_cmd_ms = Some(Finite(2 * evaluation.cap.max_p99_cmd_ms + 1))
    /\ evaluation.status = unhealthy("Latency")

(***************************************************************************)
(* The latency tracker: publishers observe samples, the poller asks p99,   *)
(* each call under the tracker's mutex.                                    *)
(***************************************************************************)
\* f64 values a publisher may hand in
Samples ==
    {Finite(v) : v \in (0 - 1)..MaxSample} \cup {NaN, PosInf, NegInf}

\* the samples are accepted by the checks of observe_ms
Accepted(ms) == observe_ms(TrackerNew(1), ms).len = 1

\* latency.observe_ms(ms)
Observe(ms) ==
    /\ lcall.n < lcall.max_calls
    /\ tracker' = observe_ms(tracker, ms)
    /\ lcall' = [lcall EXCEPT !.op = "observe_ms", !.ms = ms, !.before = tracker,
                              !.accepted = IF Accepted(ms) THEN Append(@, ms) ELSE @,
                              !.n = @ + 1]
    /\ UNCHANGED beside_tracker

\* latency.clear()
Clear ==
    /\ lcall.n < lcall.max_calls
    /\ tracker' = clear(tracker)
    /\ lcall' = [lcall EXCEPT !.op = "clear", !.before = tracker,
                              !.accepted = << >>, !.n = @ + 1]
    /\ UNCHANGED beside_tracker

\* latency.p99_ms()
P99 ==
    /\ lcall.op # "p99_ms"
    /\ lcall' = [lcall EXCEPT !.op = "p99_ms", !.before = tracker,
                              !.p99 = p99_ms(tracker)]
    /\ UNCHANGED << tracker, beside_tracker >>

WriterAndGateIdle ==
    /\ InitWith({}, Limits(1, 0, 0), {ShardsS2}, {MaxInflight})
    /\ RedisInit({[on_down |-> "DisableRedisTemporarily",
                   on_saturated |-> "StopAssigningNew"]})
    /\ EvaluatorIdle

InitLatency ==
    /\ WriterAndGateIdle
    /\ TrackerInit(1..MaxWindow, MaxObserved)
    /\ RegistryInit
    /\ IngestIdle
    /\ AppIdle

NextLatency ==
    \/ \E ms \in Samples : Observe(ms)
    \/ Clear
    \/ P99

SpecLatency == InitLatency /\ [][NextLatency]_vars

\* the k-th sample of a long run of publishes: scattered finite values
Scatter(k) == Finite((k * 37) % 103)

InitP99 ==
    /\ WriterAndGateIdle
    /\ TrackerInit({BigWindow}, Scattered)
    /\ RegistryInit
    /\ IngestIdle
    /\ AppIdle

NextP99 ==
    \/ Observe(Scatter(lcall.n + 1))
    \/ P99

SpecP99 == InitP99 /\ [][NextP99]_vars

\* the samples the tracker holds: the populated prefix of the ring
Held == SubSeq(tracker.buf, 1, tracker.len)

\* the last k of the samples accepted since the last clear
Recent(k) == SubSeq(lcall.accepted, Len(lcall.accepted) - k + 1, Len(lcall.accepted))

\* how often x occurs in s
Count(s, x) == Cardinality({i \in 1..Len(s) : s[i] = x})

\* C18: after any sequence of observe_ms and clear calls on a tracker of
\* capacity N, len equals min(number of accepted samples since the last
\* clear, N), never exceeds N, and the samples held are exactly the most
\* recent len accepted samples; a negative or non-finite sample is rejected
\* and leaves the tracker state unchanged.
C18_RingHoldsRecent ==
    /\ len(tracker) = Min(Len(lcall.accepted), tracker.cap)
    /\ len(tracker) <= tracker.cap
    /\ \A x \in Samples : Count(Held, x) = Count(Recent(len(tracker)), x)
    /\ (lcall.op = "observe_ms" /\ (lcall.ms.cls # "finite" \/ lcall.ms.v < 0)) =>
           tracker = lcall.before

\* C18 witness: a window of two, cleared after it had wrapped, then two
\* samples, a rejected one and a third sample: the first is overwritten
C18_Witness ==
    /\ tracker.cap = 2
    /\ lcall.op = "observe_ms"
    /\ Len(lcall.accepted) = 3
    /\ lcall.accepted[1] # lcall.accepted[3]
    /\ tracker.buf = << lcall.accepted[3], lcall.accepted[2] >>

\* the least integer that is at least 99 n / 100
Ceil99(n) == CHOOSE m \in 0..n : 100 * m >= 99 * n /\ \A k \in 0..n : 100 * k >= 99 * n => m <= k

\* x is the element at index k (from 0) of the ascending sort of s
IsOrderStatistic(s, k, x) ==
    /\ \E i \in 1..Len(s) : s[i] = x
    /\ Cardinality({i \in 1..Len(s) : s[i].v < x.v}) <= k
    /\ Cardinality({i \in 1..Len(s) : s[i].v <= x.v}) >= k + 1

\* C19: p99_ms returns None exactly when the tracker holds no samples;
\* otherwise it returns the element at index ceil(0.99 * n) - 1 (clamped to
\* [0, n - 1]) of the ascending sort of the n samples held, which is one of
\* the held samples, and it does not modify the tracker.
C19_P99OfHeld ==
    lcall.op = "p99_ms" =>
        /\ tracker = lcall.before
        /\ lcall.p99 = None <=> len(tracker) = 0
        /\ len(tracker) > 0 =>
               LET n == len(tracker)
                   k == Min(IF Ceil99(n) - 1 < 0 THEN 0 ELSE Ceil99(n) - 1, n - 1)
               IN  /\ Len(lcall.p99) = 1
                   /\ IsOrderStatistic(Held, k, lcall.p99[1])

\* C19 witness: with 101 samples held p99 is not the largest of them
C19_Witness ==
    /\ lcall.op = "p99_ms"
    /\ len(tracker) = 101
    /\ \E i \in 1..101 : tracker.buf[i].v > lcall.p99[1].v

(***************************************************************************)
(* The stream registry: one caller registers streams; each method routes,  *)
(* takes a connection and executes one statement, with awaits in between.  *)
(***************************************************************************)
\* the store's clock moves
RegTick ==
    /\ registry.now < MaxDbTime
    /\ registry' = [registry EXCEPT !.now = @ + 1]
    /\ UNCHANGED << beside_registry, shards, rcall >>

\* a registry method is entered
RegEnter(op, args) ==
    /\ rcall.pc = "ret"
    /\ rcall.n < MaxRegCalls
    /\ rcall' = [op |-> op, args |-> args, pc |-> "key", shard_id |-> "none",
                 result |-> "none", not_found |-> None, load |-> LoadIdle,
                 before |-> registry.rows,
                 prev |-> [op |-> rcall.op, args |-> rcall.args,
                           result |-> rcall.result],
                 n |-> rcall.n + 1]
    /\ UNCHANGED << beside_registry, shards, registry >>

\* db.upsert_stream_registry(&spec, &knobs, enabled)
UpsertStreamRegistry(spec, knobs, enabled) ==
    RegEnter("upsert", [spec |-> spec, knobs |-> knobs, enabled |-> enabled])

\* a registry method returns
RegReturn(result) ==
    /\ rcall' = [rcall EXCEPT !.pc = "ret", !.result = result]
    /\ UNCHANGED << beside_registry, shards >>

\* ExchangeId::from_str(exchange)? fails
RegKeyErr ==
    /\ rcall.pc = "key"
    /\ rcall.args.spec.exchange \notin KnownExchanges
    /\ RegReturn("UnknownExchange")
    /\ UNCHANGED registry

\* the batch key of the stream and its shard
RegRoute == RouteBatch(shards, make_batch_key(rcall.args.spec))

\* shard_id_for(..) names the shard
RegRouteOk ==
    /\ rcall.pc = "key"
    /\ rcall.args.spec.exchange \in KnownExchanges
    /\ RegRoute.ok
    /\ rcall' = [rcall EXCEPT !.pc = "conn", !.shard_id = RegRoute.id]
    /\ UNCHANGED << beside_registry, shards, registry >>

\* shard_id_for(..)? fails: no shard for the key
RegRouteErr ==
    /\ rcall.pc = "key"
    /\ rcall.args.spec.exchange \in KnownExchanges
    /\ ~RegRoute.ok
    /\ RegReturn(RegRoute.err)
    /\ UNCHANGED registry

\* pool_by_id(..)? or pool.acquire()? fails
RegConnErr ==
    /\ rcall.pc = "conn"
    /\ RegReturn("SqlxAcquire")
    /\ UNCHANGED registry

\* the statement fails in the store: nothing is written
RegExecErr ==
    /\ rcall.pc = "conn"
    /\ RegReturn("SqlxExecute")
    /\ UNCHANGED registry

\* upsert_stream_registry: the INSERT .. ON CONFLICT is executed
RegUpsertExec ==
    /\ rcall.pc = "conn"
    /\ rcall.op = "upsert"
    /\ registry' =
           [registry EXCEPT !.rows[rcall.shard_id] =
               InsertOnConflict(@, RegistryRow(rcall.args.spec, rcall.args.knobs,
                                               rcall.args.enabled, registry.now))]
    /\ RegReturn("Ok")

InitRegistry ==
    /\ InitWith({}, Limits(1, 0, 0), {ShardsS2, ShardsNoCatchAll}, {MaxInflight})
    /\ RedisIdle
    /\ RegistryInit
    /\ IngestIdle
    /\ AppIdle

NextRegistry ==
    \/ RegTick
    \/ \E spec \in StreamSpecs : \E knobs \in KnobsSet : \E enabled \in BOOLEAN :
           UpsertStreamRegistry(spec, knobs, enabled)
    \/ RegKeyErr
    \/ RegRouteOk
    \/ RegRouteErr
    \/ RegConnErr
    \/ RegExecErr
    \/ RegUpsertExec

SpecRegistry == InitRegistry /\ [][NextRegistry]_vars

\* the rows of a stream on all shards (a row twice when two shards hold it)
RowsOfStream(rows, id) ==
    {<< sh, row >> \in ShardIds \X UNION {rows[x] : x \in ShardIds} :
         row \in rows[sh] /\ row.stream_id = id}

\* the row with updated_at left out of the comparison
WithoutUpdatedAt(row) == [row EXCEPT !.updated_at = 0]

\* upsert has returned Ok for the second time in a row with the same arguments
UpsertedTwice ==
    /\ rcall.pc = "ret"
    /\ rcall.op = "upsert"
    /\ rcall.result = "Ok"
    /\ rcall.prev = [op |-> "upsert", args |-> rcall.args, result |-> "Ok"]

KnobsDefault == StreamKnobs(FALSE, FALSE, 3, 1, 2, 4)

\* the knobs an operator later gave a stream
KnobsTuned == StreamKnobs(FALSE, TRUE, 2, 1, 1, 2)

SpecDepth == StreamSpec("binance", "BTCUSDT", "depth", "ws")
SpecTrades == StreamSpec("binance", "BTCUSDT", "trades", "ws")

\* Registries left by earlier runs. A stream has a row on each shard its key
\* was routed to while the shard list changed between the runs.
\* both streams where the list of scenario S2 routes them
StoredRouted ==
    [id \in ShardIds |->
        IF id = "A" THEN {RegistryRow(SpecDepth, KnobsDefault, TRUE, 0)}
        ELSE {RegistryRow(SpecTrades, KnobsDefault, FALSE, 0)}]

\* the depth stream on both shards with different knobs, disabled on B
StoredTwice ==
    [id \in ShardIds |->
        IF id = "A" THEN {RegistryRow(SpecDepth, KnobsDefault, TRUE, 0)}
        ELSE {RegistryRow(SpecDepth, KnobsTuned, FALSE, 0),
              RegistryRow(SpecTrades, KnobsDefault, TRUE, 0)}]

\* each stream only on the shard its key does not route to under S2
StoredElsewhere ==
    [id \in ShardIds |->
        IF id = "A" THEN {RegistryRow(SpecTrades, KnobsTuned, TRUE, 0)}
        ELSE {RegistryRow(SpecDepth, KnobsDefault, TRUE, 0)}]

SpecBaz == StreamSpec("binance", "baz", "trades", "ws")

\* three enabled streams, two of them on both shards, B holding two rows a
\* SELECT may return in either order
StoredMany ==
    [id \in ShardIds |->
        IF id = "A" THEN {RegistryRow(SpecDepth, KnobsDefault, TRUE, 0),
                          RegistryRow(SpecBaz, KnobsDefault, TRUE, 0)}
        ELSE {RegistryRow(SpecBaz, KnobsTuned, TRUE, 0),
              RegistryRow(SpecTrades, KnobsDefault, TRUE, 0),
              RegistryRow(SpecDepth, KnobsTuned, FALSE, 0)}]

\* knobs with chunk_rows > flush_rows > hard_cap_rows
KnobsUnordered == StreamKnobs(FALSE, FALSE, 2, 1, 3, 1)

\* knobs in order as usize values, flush_rows and hard_cap_rows above i32::MAX
KnobsWide == StreamKnobs(FALSE, FALSE, I32Half, 1, 1, I32Half)

\* the knobs update_stream_knobs is called with
KnobsGiven == {KnobsTuned, KnobsUnordered, KnobsWide}

StoredRegistries == {StoredRouted, StoredTwice, StoredElsewhere, StoredMany}

\* a statement that reports one row whatever the table holds
rows_affected_one(rows, id) == 1

\* res.rows_affected() of a statement with WHERE stream_id = id
rows_affected(rows, id) == Cardinality({row \in rows : row.stream_id = id})

\* UPDATE stream_registry SET <the six knobs>, updated_at = now()
UpdateSet(row, knobs, t) ==
    [row EXCEPT !.disable_db_writes = knobs.disable_db_writes,
                !.disable_redis_publishes = knobs.disable_redis_publishes,
                !.flush_rows = as_i32(knobs.flush_rows),
                !.flush_interval_ms = as_i64(knobs.flush_interval_ms),
                !.chunk_rows = as_i32(knobs.chunk_rows),
                !.hard_cap_rows = as_i32(knobs.hard_cap_rows),
                !.updated_at = t]

\* UPDATE ... WHERE stream_id = id
UpdateWhere(rows, id, knobs, t) ==
    {IF row.stream_id = id THEN UpdateSet(row, knobs, t) ELSE row : row \in rows}

\* DELETE FROM stream_registry WHERE stream_id = id
DeleteWhere(rows, id) == {row \in rows : row.stream_id # id}

\* db.update_stream_knobs(&spec, &knobs)
UpdateStreamKnobs(spec, knobs) ==
    RegEnter("update", [spec |-> spec, knobs |-> knobs, enabled |-> FALSE])

\* db.remove_stream(&spec)
RemoveStream(spec) ==
    RegEnter("remove", [spec |-> spec, knobs |-> NoArgs.knobs, enabled |-> FALSE])

\* return Err(AppError::StreamNotFound(stream_id.0))
RegNotFound(id) ==
    /\ rcall' = [rcall EXCEPT !.pc = "ret", !.result = "StreamNotFound",
                              !.not_found = Some(id)]
    /\ UNCHANGED << beside_registry, shards, registry >>

\* update_stream_knobs: the UPDATE is executed
RegUpdateExec ==
    /\ rcall.pc = "conn"
    /\ rcall.op = "update"
    /\ LET id == StreamId(rcall.args.spec)
       IN  IF rows_affected(registry.rows[rcall.shard_id], id) = 0
           THEN RegNotFound(id)
           ELSE /\ registry' =
                       [registry EXCEPT !.rows[rcall.shard_id] =
                           UpdateWhere(@, id, rcall.args.knobs, registry.now)]
                /\ RegReturn("Ok")

\* remove_stream: the DELETE is executed
RegRemoveExec ==
    /\ rcall.pc = "conn"
    /\ rcall.op = "remove"
    /\ LET id == StreamId(rcall.args.spec)
       IN  IF rows_affected(registry.rows[rcall.shard_id], id) = 0
           THEN RegNotFound(id)
           ELSE /\ registry' =
                       [registry EXCEPT !.rows[rcall.shard_id] = DeleteWhere(@, id)]
                /\ RegReturn("Ok")

\* ---------------------------------------------------------------------
\* load_enabled_streams_from_registry
\* ---------------------------------------------------------------------

\* the names StreamKind::from_str and StreamTransport::from_str know
KnownKinds == {"trades", "depth"}
KnownTransports == {"ws"}

\* StartStreamParams { exchange, transport, kind, symbol } of a row
StartStreamParams(row) ==
    [exchange |-> row.exchange, transport |-> row.transport,
     kind |-> row.kind, symbol |-> row.instrument]

\* the three from_str calls on a row's columns succeed
ParsesOk(row) ==
    /\ row.exchange \in KnownExchanges
    /\ row.transport \in KnownTransports
    /\ row.kind \in KnownKinds

\* `x as u8` of the enums, and the byte order of the symbols
ExchangeOrd(e) == 0
TransportOrd(t) == 0
KindOrd(k) == IF k = "trades" THEN 0 ELSE 1
SymbolOrd(s) == IF s = "BTCUSDT" THEN 0 ELSE 1

\* (a.exchange as u8, a.transport as u8, a.kind as u8, &a.symbol)
SortKey(a) ==
    << ExchangeOrd(a.exchange), TransportOrd(a.transport), KindOrd(a.kind),
       SymbolOrd(a.symbol) >>

\* Ord::cmp of two such tuples is Less
RECURSIVE TupleLess(_, _, _)
TupleLess(a, b, i) ==
    IF i > Len(a) THEN FALSE
    ELSE IF a[i] < b[i] THEN TRUE
    ELSE IF a[i] > b[i] THEN FALSE
    ELSE TupleLess(a, b, i + 1)

KeyLess(a, b) == TupleLess(SortKey(a), SortKey(b), 1)

\* a load that returns the list in the order the rows were met
sort_by_unsorted(out) == out

\* out.sort_by(..): a stable sort, an element going to the place after the
\* elements that are less and the equal ones that were before it
sort_by(out) ==
    LET place(i) ==
            1 + Cardinality({j \in 1..Len(out) :
                                \/ KeyLess(out[j], out[i])
                                \/ /\ ~KeyLess(out[i], out[j])
                                   /\ j < i})
    IN  [p \in 1..Len(out) |-> out[CHOOSE i \in 1..Len(out) : place(i) = p]]

\* a `seen` that takes every id as new
seen_insert_always(seen, id) == TRUE

\* seen.insert(stream_id): true when the id was not in the set
seen_insert(seen, id) == id \notin seen

\* every order in which a SELECT may return these rows
RECURSIVE Orders(_)
Orders(rows) ==
    IF rows = {} THEN {<< >>}
    ELSE UNION {{<< row >> \o rest : rest \in Orders(rows \ {row})} : row \in rows}

\* SELECT ... FROM stream_registry WHERE enabled = true
SelectEnabled(rows) == {row \in rows : row.enabled}

\* `for r in rows`: the rows of one shard, from row i on. ld.result becomes
\* an error when a column does not parse.
RECURSIVE ForRows(_, _, _, _)
ForRows(ld, fetched, i, shard_id) ==
    IF i > Len(fetched) THEN ld
    ELSE LET r == fetched[i]
         IN  IF ~seen_insert(ld.seen, r.stream_id)
             THEN ForRows(ld, fetched, i + 1, shard_id)
             ELSE LET added == [ld EXCEPT !.seen = @ \cup {r.stream_id}]
                  IN  IF ~ParsesOk(r) THEN [added EXCEPT !.ix = 0]
                      ELSE ForRows(
                               [added EXCEPT
                                   !.out = Append(@, StartStreamParams(r)),
                                   !.kept = Append(@, [shard |-> shard_id,
                                                       stream_id |-> r.stream_id])],
                               fetched, i + 1, shard_id)

\* db.load_enabled_streams_from_registry(): the shard list is snapshotted and
\* the scan starts at its first shard
LoadEnabled ==
    /\ rcall.pc = "ret"
    /\ rcall.n < MaxRegCalls
    /\ rcall' = [op |-> "load", args |-> NoArgs, pc |-> "scan", shard_id |-> "none",
                 result |-> "none", not_found |-> None,
                 load |-> [LoadIdle EXCEPT !.ix = 1],
                 before |-> registry.rows,
                 prev |-> [op |-> rcall.op, args |-> rcall.args,
                           result |-> rcall.result],
                 n |-> rcall.n + 1]
    /\ UNCHANGED << beside_registry, shards, registry >>

\* pool_by_id(..)? or pool.acquire()? or fetch_all(..)? fails on a shard
LoadShardErr ==
    /\ rcall.pc = "scan"
    /\ rcall.load.ix <= Len(shards)
    /\ \E e \in {"SqlxAcquire", "SqlxExecute"} : RegReturn(e)
    /\ UNCHANGED registry

\* one turn of `for shard in shards`: the rows are fetched, in an order the
\* store chooses, and gone through
LoadShard ==
    /\ rcall.pc = "scan"
    /\ rcall.load.ix <= Len(shards)
    /\ LET shard_id == shards[rcall.load.ix].id
       IN  \E fetched \in Orders(SelectEnabled(registry.rows[shard_id])) :
               LET ld == ForRows(rcall.load, fetched, 1, shard_id)
               IN  IF ld.ix = 0
                   THEN rcall' = [rcall EXCEPT !.pc = "ret", !.result = "Parse",
                                               !.load = ld]
                   ELSE rcall' = [rcall EXCEPT !.load = [ld EXCEPT !.ix = @ + 1]]
    /\ UNCHANGED << beside_registry, shards, registry >>

\* after the last shard: out.sort_by(..); Ok(out)
LoadSorted ==
    /\ rcall.pc = "scan"
    /\ rcall.load.ix > Len(shards)
    /\ rcall' = [rcall EXCEPT !.pc = "ret", !.result = "Ok",
                              !.load.out = sort_by(@)]
    /\ UNCHANGED << beside_registry, shards, registry >>

InitStreams ==
    /\ InitWith({}, Limits(1, 0, 0), {ShardsS2, ShardsNoCatchAll}, {MaxInflight})
    /\ RedisIdle
    /\ \E stored \in StoredRegistries :
           registry = [rows |-> stored, now |-> 0]
    /\ rcall = [RCallIdle EXCEPT !.before = registry.rows]
    /\ IngestIdle
    /\ AppIdle

NextStreams ==
    \/ RegTick
    \/ \E spec \in StreamSpecs : \E knobs \in KnobsGiven : UpdateStreamKnobs(spec, knobs)
    \/ \E spec \in StreamSpecs : RemoveStream(spec)
    \/ RegKeyErr
    \/ RegRouteOk
    \/ RegRouteErr
    \/ RegConnErr
    \/ RegExecErr
    \/ RegUpdateExec
    \/ RegRemoveExec
    \/ LoadEnabled
    \/ LoadShardErr
    \/ LoadShard
    \/ LoadSorted

SpecStreams == InitStreams /\ [][NextStreams]_vars

\* the stream has a row among these rows
HasRow(rows, id) == \E row \in rows : row.stream_id = id

\* update_knobs or remove has returned for a stream whose key routes to a
\* shard that held no row of it when the call was made
ReturnedWithoutRow ==
    /\ rcall.pc = "ret"
    /\ rcall.op \in {"update", "remove"}
    /\ rcall.args.spec.exchange \in KnownExchanges
    /\ RegRoute.ok
    /\ ~HasRow(rcall.before[RegRoute.id], StreamId(rcall.args.spec))

\* C21: update_knobs and remove for a stream_id with no row on the shard its
\* key routes to return StreamNotFound carrying that stream_id (unless the
\* store itself failed before the statement's result was known), and leave
\* every registry row on every shard unchanged.
C21_ZeroRowsNotFound ==
    ReturnedWithoutRow =>
        /\ registry.rows = rcall.before
        /\ \/ rcall.result \in {"SqlxAcquire", "SqlxExecute"}
           \/ /\ rcall.result = "StreamNotFound"
              /\ rcall.not_found = Some(StreamId(rcall.args.spec))

\* C21 witness: update_knobs returned StreamNotFound for a stream that has a
\* row, but on the shard its key does not route to
C21_Witness ==
    /\ ReturnedWithoutRow
    /\ rcall.op = "update"
    /\ rcall.result = "StreamNotFound"
    /\ HasRow(registry.rows["B"], StreamId(rcall.args.spec))

\* load_enabled has returned Ok(out)
LoadReturned ==
    /\ rcall.pc = "ret"
    /\ rcall.op = "load"
    /\ rcall.result = "Ok"

\* the stream_id of a returned StartStreamParams
IdOf(a) == StreamId(StreamSpec(a.exchange, a.symbol, a.kind, a.transport))

\* the shards of the list, in declaration order, that hold an enabled row of
\* the stream
ShardsHolding(id) ==
    {i \in 1..Len(shards) :
        HasRow(SelectEnabled(registry.rows[shards[i].id]), id)}

\* C22: load_enabled() returns each stream_id at most once even when rows
\* for it exist on several shards, keeping the first row met when shards are
\* scanned in declaration order, and it returns only streams that have a
\* row with enabled = true.
C22_LoadOncePerStream ==
    LoadReturned =>
        LET out == rcall.load.out
            kept == rcall.load.kept
        IN  /\ \A i, j \in 1..Len(out) : i # j => IdOf(out[i]) # IdOf(out[j])
            /\ Len(kept) = Len(out)
            /\ {IdOf(out[i]) : i \in 1..Len(out)}
                   = {kept[i].stream_id : i \in 1..Len(kept)}
            /\ \A i \in 1..Len(kept) :
                   /\ ShardsHolding(kept[i].stream_id) # {}
                   /\ \A s \in ShardsHolding(kept[i].stream_id) :
                          \E f \in ShardsHolding(kept[i].stream_id) :
                              f <= s /\ shards[f].id = kept[i].shard

\* C22 witness: three streams returned, one of them enabled on both shards
\* of the list
C22_Witness ==
    /\ LoadReturned
    /\ Len(rcall.load.out) = 3
    /\ \E i \in 1..Len(rcall.load.out) :
           Cardinality(ShardsHolding(IdOf(rcall.load.out[i]))) = 2

\* C23: the list returned by load_enabled() is sorted by (exchange,
\* transport, kind, symbol): it is strictly increasing in that key and holds
\* the streams with an enabled row on a shard of the list, so it is the same
\* whatever the order in which the shards return their rows.
C23_LoadSorted ==
    LoadReturned =>
        LET out == rcall.load.out
        IN  /\ \A i, j \in 1..Len(out) : i < j => KeyLess(out[i], out[j])
            /\ {out[i] : i \in 1..Len(out)}
                   = {StartStreamParams(row) :
                         row \in UNION {SelectEnabled(registry.rows[shards[i].id]) :
                                           i \in 1..Len(shards)}}

\* C23 witness: the rows were met in another order than the one returned
C23_Witness ==
    /\ LoadReturned
    /\ Len(rcall.load.out) = 3
    /\ \E i \in 1..Len(rcall.load.out) :
           rcall.load.kept[i].stream_id # IdOf(rcall.load.out[i])

\* 0 < chunk_rows <= flush_rows <= hard_cap_rows
KnobsInOrder(chunk_rows, flush_rows, hard_cap_rows) ==
    /\ 0 < chunk_rows
    /\ chunk_rows <= flush_rows
    /\ flush_rows <= hard_cap_rows

\* C24: every knobs record persisted in the stream registry by upsert or
\* update_knobs, and every batch handed to write_batch, satisfies
\* 0 < chunk_rows <= flush_rows <= hard_cap_rows; a knobs value violating
\* this is rejected instead of being stored or used.
C24_KnobsInOrder ==
    /\ \A id \in ShardIds : \A row \in registry.rows[id] :
           KnobsInOrder(row.chunk_rows, row.flush_rows, row.hard_cap_rows)
    /\ \A t \in Tasks :
           KnobsInOrder(batch[t].chunk_rows, batch[t].flush_rows, batch[t].flush_rows)

\* ---------------------------------------------------------------------
\* WsClient::connect_loop, one action per await point or branch
\* ---------------------------------------------------------------------

\* what the stream task does not change
beside_ws == << writer, redis, registry, rcall, rendering, app >>

\* the task returns from run_stream
WsReturn(result) ==
    /\ ws' = [ws EXCEPT !.pc = "done", !.result = result]
    /\ UNCHANGED beside_ws

\* where a cycle goes after the hook let it begin
AfterEntry(cfg) == IF cfg.limiters THEN "reconnect" ELSE "connect"

\* a loop that opens the subscribe gate before the transport
AfterConnectUngated(cfg) == "subscribe"

\* where a cycle goes after connect_async succeeded
AfterConnect(cfg) == IF cfg.limiters THEN "subscribe_wait" ELSE "subscribe"

\* loop entry: the test hook decides whether another attempt is made
WsLoopEntry ==
    /\ ws.pc = "entry"
    /\ LET r == IF ws.hook = None THEN [hook |-> None, go |-> TRUE]
                ELSE LET c == on_before_reconnect_attempt(ws.hook[1])
                     IN  [hook |-> Some(c.hook), go |-> c.go]
       IN  IF r.go
           THEN /\ ws.cycles < ws.budget.cycles
                /\ ws' = [ws EXCEPT !.hook = r.hook, !.cycle = CycleNew,
                                    !.cycles = @ + 1, !.pc = AfterEntry(ws.cfg)]
           ELSE ws' = [ws EXCEPT !.hook = r.hook, !.cycle = CycleNew,
                                 !.pc = "done", !.result = "Ok"]
    /\ UNCHANGED beside_ws

\* lims.acquire_reconnect(self.name).await?
WsAcquireReconnect(ok) ==
    /\ ws.pc = "reconnect"
    /\ IF ok
       THEN /\ ws' = [ws EXCEPT !.cycle.reconnect_acquired = @ + 1, !.pc = "connect"]
            /\ UNCHANGED beside_ws
       ELSE WsReturn("LimiterError")

\* connect_async(url).await ... ?
WsConnect(ok) ==
    /\ ws.pc = "connect"
    /\ IF ok
       THEN /\ ws' = [ws EXCEPT !.cycle.opened = TRUE, !.opened = @ + 1,
                                !.pc = AfterConnect(ws.cfg)]
            /\ UNCHANGED beside_ws
       ELSE WsReturn("ConnectError")

\* lims.acquire_subscribe(self.name).await?
WsAcquireSubscribe(ok) ==
    /\ ws.pc = "subscribe_wait"
    /\ IF ok
       THEN /\ ws' = [ws EXCEPT !.cycle.subscribe_acquired = @ + 1,
                                !.pc = "subscribe"]
            /\ UNCHANGED beside_ws
       ELSE WsReturn("LimiterError")

\* the deadline of a cycle subscribed at time t
Deadline(cfg, t) == IF cfg.timeout_secs > 0 THEN Some(t + cfg.timeout_secs) ELSE None

\* send_ws_payload(&mut write, &subscribe_msg).await?; then the heartbeat
\* driver and the deadline are set up
WsSendSubscribe(ok) ==
    /\ ws.pc = "subscribe"
    /\ IF ok
       THEN /\ ws' = [ws EXCEPT !.cycle.subscribe_sent = TRUE,
                                !.cycle.deadline = Deadline(ws.cfg, ws.now),
                                !.cycle.hb_tick = heartbeat_sender(ws.cfg),
                                !.pc = "top"]
            /\ UNCHANGED beside_ws
       ELSE WsReturn("SubscribeSendError")

\* `Instant::now() >= dl` at the top of the inner loop
Expired(cycle, t) == cycle.deadline # None /\ t >= cycle.deadline[1]

\* top of the inner loop: the deadline is looked at, then the heartbeat
WsLoopTop ==
    /\ ws.pc = "top"
    /\ ws' = IF Expired(ws.cycle, ws.now)
             THEN [ws EXCEPT !.cycle.close_reason = "timeout", !.pc = "unsubscribe"]
             ELSE [ws EXCEPT !.pc = IF heartbeat_sender(ws.cfg) THEN "heartbeat"
                                    ELSE "read"]
    /\ UNCHANGED beside_ws

\* the subscribed connection is in use: the task is in the inner loop
Active == ws.pc \in {"top", "heartbeat", "read", "on_event"}

\* hb_tick.tick().await is over once the interval has a tick ready; then
\* maybe_send_ws_heartbeat(..).await?
WsHeartbeat(ok) ==
    /\ ws.pc = "heartbeat"
    /\ ws.cycle.hb_tick
    /\ IF ok
       THEN /\ ws' = [ws EXCEPT !.cycle.hb_tick = FALSE, !.pc = "read"]
            /\ UNCHANGED beside_ws
       ELSE WsReturn("HeartbeatSendError")

\* the interval's period is over: its next tick is ready
WsTimer ==
    /\ Active
    /\ heartbeat_sender(ws.cfg)
    /\ ~ws.cycle.hb_tick
    /\ ws' = [ws EXCEPT !.cycle.hb_tick = TRUE]
    /\ UNCHANGED beside_ws

\* a frame of the exchange arrives on the socket
WsArrive(frame) ==
    /\ Active
    /\ ws.frames < ws.budget.frames
    /\ ws' = [ws EXCEPT !.cycle.inbox = Append(@, frame), !.frames = @ + 1]
    /\ UNCHANGED beside_ws

\* read.next() yields Text, Binary, Ping or Pong: on_event is called
WsReadFrame ==
    /\ ws.pc = "read"
    /\ ws.cycle.inbox # << >>
    /\ Head(ws.cycle.inbox) \in DataFrames
    /\ ws' = [ws EXCEPT !.frame = Head(ws.cycle.inbox),
                        !.cycle.inbox = Tail(@), !.pc = "on_event"]
    /\ UNCHANGED beside_ws

\* read.next() yields a frame of another kind: `_ => {}`
WsReadOther ==
    /\ ws.pc = "read"
    /\ ws.cycle.inbox # << >>
    /\ Head(ws.cycle.inbox) \notin DataFrames
    /\ ws' = [ws EXCEPT !.cycle.inbox = Tail(@), !.pc = "top"]
    /\ UNCHANGED beside_ws

\* on_event(..).await? returns; after a Ping the Pong is sent, its result
\* dropped
WsOnEvent(ok) ==
    /\ ws.pc = "on_event"
    /\ IF ok
       THEN /\ ws' = [ws EXCEPT !.cycle.delivered = @ + 1, !.frame = "none",
                                !.pc = "top"]
            /\ UNCHANGED beside_ws
       ELSE /\ ws' = [ws EXCEPT !.cycle.delivered = @ + 1, !.frame = "none",
                                !.pc = "done", !.result = "OnEventError"]
            /\ UNCHANGED beside_ws

\* read.next() yields Close: on_event is called, its result dropped; or it
\* yields an error, or None
WsReadBreak(why) ==
    /\ ws.pc = "read"
    /\ ws.cycle.inbox = << >>
    /\ ws' = [ws EXCEPT !.cycle.close_reason = why,
                        !.cycle.delivered = IF why = "close" THEN @ + 1 ELSE @,
                        !.pc = "unsubscribe"]
    /\ UNCHANGED beside_ws

\* let _ = send_ws_payload(&mut write, &unsubscribe_msg).await
WsUnsubscribe ==
    /\ ws.pc = "unsubscribe"
    /\ ws' = [ws EXCEPT !.cycle.unsubscribes = @ + 1,
                        !.reasons = Append(@, ws.cycle.close_reason),
                        !.pc = "disconnected"]
    /\ UNCHANGED beside_ws

\* the test hook is told of the disconnect; the outer loop goes round
WsDisconnected ==
    /\ ws.pc = "disconnected"
    /\ ws' = [ws EXCEPT
                 !.hook = IF @ = None THEN None
                          ELSE Some(on_disconnected(@[1], ws.cycle.close_reason)),
                 !.pc = "entry"]
    /\ UNCHANGED beside_ws

\* a second passes
WsTick ==
    /\ ws.pc # "done"
    /\ ws.now < ws.budget.time
    /\ ws' = [ws EXCEPT !.now = @ + 1]
    /\ UNCHANGED beside_ws

\* the steps the task takes by itself once its await is over
WsClient ==
    \/ WsLoopEntry
    \/ \E ok \in BOOLEAN : WsAcquireReconnect(ok)
    \/ \E ok \in BOOLEAN : WsConnect(ok)
    \/ \E ok \in BOOLEAN : WsAcquireSubscribe(ok)
    \/ \E ok \in BOOLEAN : WsSendSubscribe(ok)
    \/ WsLoopTop
    \/ \E ok \in BOOLEAN : WsHeartbeat(ok)
    \/ WsReadFrame
    \/ WsReadOther
    \/ \E ok \in BOOLEAN : WsOnEvent(ok)
    \/ WsUnsubscribe
    \/ WsDisconnected

\* what the exchange and the clock do
WsPeer ==
    \/ \E frame \in DataFrames \cup {"Frame"} : WsArrive(frame)
    \/ WsTimer
    \/ \E why \in {"close", "read error", "stream ended"} : WsReadBreak(why)
    \/ WsTick

InitWs ==
    /\ InitWith({}, Limits(1, 0, 0), {ShardsS2}, {MaxInflight})
    /\ RedisIdle
    /\ RegistryInit
    /\ RenderIdle
    /\ AppIdle
    /\ \E cfg \in WsConfigs :
           ws = WsNew(cfg, None,
                      [cycles |-> ConnCycles, frames |-> MaxFrames, time |-> MaxWsTime])

NextWs == WsClient \/ WsPeer

SpecWs == InitWs /\ [][NextWs]_vars

\* runs under a test hook, of a client without heartbeat or connection
\* timeout
InitHook ==
    /\ InitWith({}, Limits(1, 0, 0), {ShardsS2}, {MaxInflight})
    /\ RedisIdle
    /\ RegistryInit
    /\ RenderIdle
    /\ AppIdle
    /\ \E hook \in TestHooks : \E limiters \in BOOLEAN :
           ws = WsNew([limiters |-> limiters, timeout_secs |-> 0,
                       heartbeat_type |-> "none"],
                      hook, [cycles |-> MaxCycles, frames |-> 0, time |-> 0])

\* under the hook the exchange only ends connections
NextHook ==
    \/ WsLoopEntry
    \/ \E ok \in BOOLEAN : WsAcquireReconnect(ok)
    \/ \E ok \in BOOLEAN : WsAcquireSubscribe(ok)
    \/ \E ok \in BOOLEAN : WsConnect(ok)
    \/ \E ok \in BOOLEAN : WsSendSubscribe(ok)
    \/ WsLoopTop
    \/ \E why \in {"close", "read error", "stream ended"} : WsReadBreak(why)
    \/ WsUnsubscribe
    \/ WsDisconnected

SpecHook == InitHook /\ [][NextHook]_vars

\* the task is scheduled: a step it can take by itself is taken
SpecWsLive == SpecWs /\ WF_vars(WsClient) /\ WF_vars(WsTimer)

\* the cycle is past its reconnect gate and has not ended by an error there
PastReconnect == ws.pc \in {"connect", "subscribe_wait", "subscribe", "top",
                            "heartbeat", "read", "on_event", "unsubscribe",
                            "disconnected"}

\* C25: with a limiter registry supplied, in every connection cycle the
\* reconnect limiter is acquired before the transport is opened, the
\* subscribe limiter after the transport is open and before the subscribe
\* payload is sent, and no frame is delivered to on_event before the
\* subscribe payload was sent; a cycle acquires the reconnect limiter exactly
\* once and the subscribe limiter at most once.
C25_LimitersInOrder ==
    ws.cfg.limiters =>
        /\ ws.cycle.opened => ws.cycle.reconnect_acquired = 1
        /\ ws.cycle.subscribe_acquired > 0 => ws.cycle.opened
        /\ ws.cycle.subscribe_sent => ws.cycle.subscribe_acquired = 1
        /\ ws.cycle.delivered > 0 => ws.cycle.subscribe_sent
        /\ PastReconnect => ws.cycle.reconnect_acquired = 1
        /\ ws.cycle.reconnect_acquired <= 1
        /\ ws.cycle.subscribe_acquired <= 1

\* C25 witness: the second cycle of a run with limiters has delivered a frame
C25_Witness ==
    /\ ws.cfg.limiters
    /\ ws.cycles = 2
    /\ ws.cycle.delivered = 1
    /\ ws.cycle.reconnect_acquired = 1
    /\ ws.cycle.subscribe_acquired = 1

\* C26: a transport error at connect, at sending the subscribe or heartbeat
\* payload, or at read is recovered by the reconnect loop: run_stream does
\* not return on it.
C26_TransportRecovered ==
    ws.pc = "done" =>
        ws.result \notin {"ConnectError", "SubscribeSendError", "HeartbeatSendError"}

\* the subscribed connection is past its deadline and still in use
ActiveExpired ==
    /\ Active
    /\ Expired(ws.cycle, ws.now)

\* C27: with connection_timeout_seconds > 0 a cycle is torn down
\* (unsubscribe attempted, then reconnect) once that many seconds have passed
\* since subscribe, even if no frame, close or read error ever arrives; a
\* call that returns on an error of on_event or of a send is left aside.
C27_TimeoutTearsDown == ActiveExpired ~> (ws.pc \in {"disconnected", "done"})

\* C28: whenever a cycle that reached Active ends, for any cause, one
\* best-effort unsubscribe send was attempted on its connection.
C28_UnsubscribeOnEnd ==
    (ws.pc \in {"disconnected", "entry", "done"} /\ ws.cycle.subscribe_sent) =>
        ws.cycle.unsubscribes = 1

\* C29: with a test hook whose max_reconnect_attempts is Some(n), run_stream
\* opens at most n connections and returns Ok(()) at the loop entry
\* following the n-th cycle (with n = 0 without connecting or acquiring a
\* limiter); the hook's disconnects list has one entry per completed cycle,
\* in order.
C29_HookCapsAttempts ==
    (ws.hook # None /\ ws.hook[1].max_reconnect_attempts # None) =>
        LET h == ws.hook[1]
            n == h.max_reconnect_attempts[1]
        IN  /\ ws.opened <= n
            /\ (ws.pc = "done" /\ ws.result = "Ok") =>
                   /\ ws.cycles = n
                   /\ Len(ws.reasons) = n
            /\ n = 0 => /\ ws.cycles = 0
                        /\ ws.cycle.reconnect_acquired = 0
                        /\ ws.cycle.subscribe_acquired = 0
            /\ ws.pc # "disconnected" => h.disconnects = ws.reasons

\* ---------------------------------------------------------------------
\* render_string, one action per turn of its loop
\* ---------------------------------------------------------------------

\* what render_string does not change
beside_rendering == << writer, redis, registry, rcall, ws, app >>

\* fast path: no '<' in the input
RenderFast ==
    /\ rendering.pc = "start"
    /\ Find(rendering.input, 1, "<") = 0
    /\ rendering' = [rendering EXCEPT !.pc = "done",
                                      !.result = RenderOk(rendering.input)]
    /\ UNCHANGED beside_rendering

\* let mut out = input.to_string(); let mut i = 0
RenderBegin ==
    /\ rendering.pc = "start"
    /\ Find(rendering.input, 1, "<") # 0
    /\ rendering' = [rendering EXCEPT !.pc = "scan", !.out = rendering.input,
                                      !.i = 1, !.missing = {}]
    /\ UNCHANGED beside_rendering

\* one turn of `while let Some(start) = out[i..].find('<')`
RenderStep ==
    /\ rendering.pc = "scan"
    /\ LET r == rendering
           start == Find(r.out, r.i, "<")
           end == IF start = 0 THEN 0 ELSE Find(r.out, start, ">")
           key == SubSeq(r.out, start + 1, end - 1)
           val == ctx_get(r.ctx, key)
       IN  rendering' =
               IF start = 0 \/ end = 0 THEN [r EXCEPT !.pc = "finish"]
               ELSE IF val # None
                    THEN after_replace(r, start, end, val[1])
                    ELSE on_missing(r, key, end)
    /\ UNCHANGED beside_rendering

\* after the loop: Err with the missing keys, or Ok(out)
RenderReturn ==
    /\ rendering.pc = "finish"
    /\ rendering' =
           [rendering EXCEPT
               !.pc = "done",
               !.result = IF rendering.missing # {}
                          THEN RenderErr(rendering.missing)
                          ELSE RenderOk(rendering.out)]
    /\ UNCHANGED beside_rendering

InitRender ==
    /\ InitWith({}, Limits(1, 0, 0), {ShardsS2}, {MaxInflight})
    /\ RedisIdle
    /\ RegistryInit
    /\ WsIdle
    /\ AppIdle
    /\ \/ \E input \in Templates : \E ctx \in Ctxs : rendering = RenderNew(input, ctx)
       \/ \E ctx \in {CtxEmpty, CtxSymbol} : rendering = RenderNew(TemplateDepth, ctx)

NextRender == RenderFast \/ RenderBegin \/ RenderStep \/ RenderReturn

SpecRender == InitRender /\ [][NextRender]_vars

\* the keys of the <key> placeholders of a string, read from character i on:
\* from a '<' to the next '>'
RECURSIVE PlaceholderKeys(_, _)
PlaceholderKeys(s, i) ==
    LET start == Find(s, i, "<")
        end == IF start = 0 THEN 0 ELSE Find(s, start, ">")
    IN  IF start = 0 \/ end = 0 THEN {}
        ELSE {SubSeq(s, start + 1, end - 1)} \cup PlaceholderKeys(s, end + 1)

\* the placeholder keys of the input that ctx does not bind
MissingKeys(input, ctx) ==
    {key \in PlaceholderKeys(input, 1) : ctx_get(ctx, key) = None}

Rendered == rendering.pc = "done"

\* what the claim gives as example
RendersDepth ==
    (Rendered /\ rendering.input = TemplateDepth) =>
        /\ rendering.ctx = CtxSymbol =>
               rendering.result =
                   RenderOk(<< "b", "t", "c", "u", "s", "d", "t", "@", "d", "e", "p", "t", "h" >>)
        /\ rendering.ctx = CtxEmpty =>
               rendering.result = RenderErr({<< "s", "y", "m", "b", "o", "l" >>})

\* the call fails and its error lists every key that is missing
FailsNamingAll ==
    /\ ~rendering.result.ok
    /\ rendering.result.out = << >>
    /\ MissingKeys(rendering.input, rendering.ctx) \subseteq rendering.result.missing

\* C30 as stated: render_string fails whenever at least one <key>
\* placeholder of the input has no binding in ctx (case-sensitive), the error
\* names every distinct missing key, and no partially rendered string is
\* returned; "<symbol>@depth" renders to "btcusdt@depth" with symbol bound
\* and fails naming symbol with an empty ctx.
C30_RenderNamesMissing ==
    /\ (Rendered /\ MissingKeys(rendering.input, rendering.ctx) # {}) => FailsNamingAll
    /\ RendersDepth

\* no value bound in ctx holds a '<'
ValuesPlain(ctx) == \A b \in ctx : Find(b.val, 1, "<") = 0

\* C30 amended: the same, for a ctx none of whose values contains '<'.
C30_RenderNamesMissingPlain ==
    /\ (/\ Rendered
        /\ ValuesPlain(rendering.ctx)
        /\ MissingKeys(rendering.input, rendering.ctx) # {}) => FailsNamingAll
    /\ RendersDepth

\* C30 witness: two placeholders whose keys differ only in case, neither
\* bound: the error lists both
C30_Witness ==
    /\ Rendered
    /\ rendering.ctx = CtxEmpty
    /\ rendering.input = << "<", "a", ">", "<", "A", ">" >>
    /\ rendering.result = RenderErr({<< "a" >>, << "A" >>})

\* ---------------------------------------------------------------------
\* render_string applied to its own output
\* ---------------------------------------------------------------------

\* the caller renders what a successful call returned, with the same ctx
RenderAgain ==
    /\ rendering.pc = "done"
    /\ rendering.result.ok
    /\ rendering.prev = None
    /\ rendering' = [RenderNew(rendering.result.out, rendering.ctx)
                        EXCEPT !.prev = Some(rendering.result)]
    /\ UNCHANGED beside_rendering

NextRenderTwice == NextRender \/ RenderAgain

SpecRenderTwice == InitRender /\ [][NextRenderTwice]_vars

\* the call that has returned was given the output of an earlier call
RenderedTwice == Rendered /\ rendering.prev # None

\* C31: rendering is idempotent: when render(x, ctx) succeeds,
\* render(render(x, ctx), ctx) succeeds and equals it; and an input with no
\* '<' is returned unchanged for any ctx.
C31_RenderIdempotent ==
    /\ RenderedTwice => rendering.result = rendering.prev[1]
    /\ (Rendered /\ Find(rendering.input, 1, "<") = 0) =>
           rendering.result = RenderOk(rendering.input)

\* C31 witness: a second call has returned on an output that still holds a
\* '<', left there by a substitution of the first call
C31_Witness ==
    /\ RenderedTwice
    /\ rendering.ctx = CtxBracket
    /\ rendering.input = << "a", "<" >>
    /\ rendering.result = RenderOk(<< "a", "<" >>)

\* render_string runs to its end whenever it has a step to take
SpecRenderLive == SpecRender /\ WF_vars(NextRender)

\* C39: render_string terminates for every input string and every ctx,
\* including a ctx whose bound values themselves contain '<' or a
\* placeholder.
C39_RenderTerminates == <>Rendered

\* ---------------------------------------------------------------------
\* validate_config and is_power_of_ten, called
\* ---------------------------------------------------------------------

\* what the validation does not change
beside_validation == << writer, redis, registry, rcall, ingest >>

ValidateConfig ==
    /\ validation.pc = "start"
    /\ validation.op = "validate_config"
    /\ validation' = [validation EXCEPT !.pc = "done",
                                        !.result = validate_config(validation.cfg)]
    /\ UNCHANGED beside_validation

IsPowerOfTen ==
    /\ validation.pc = "start"
    /\ validation.op = "is_power_of_ten"
    /\ validation' = [validation EXCEPT !.pc = "done",
                                        !.answer = is_power_of_ten(validation.v)]
    /\ UNCHANGED beside_validation

InitApp ==
    /\ InitWith({}, Limits(1, 0, 0), {ShardsS2}, {MaxInflight})
    /\ RedisIdle
    /\ RegistryInit
    /\ IngestIdle
    /\ \/ \E cfg \in AppConfigs :
              validation = ValidationNew("validate_config", cfg, 0)
       \/ \E v \in (-MaxScale..MaxScale) \cup {500, 1000, 10000} :
              validation = ValidationNew("is_power_of_ten", NoAppConfig, v)

NextApp == ValidateConfig \/ IsPowerOfTen

SpecApp == InitApp /\ [][NextApp]_vars

\* 10^k for k >= 0, as far as the values asked about go
PowersOfTen == {10 ^ k : k \in 0..9}

Validated == validation.pc = "done" /\ validation.op = "validate_config"

\* the checks that come before the scales pass
HeadValid(cfg) ==
    /\ cfg.id # ""
    /\ cfg.config_version # 0
    /\ cfg.max_active_streams # 0
    /\ cfg.max_events_per_sec # 0

\* the scales that are not a positive power of ten, by their place in the order
Offending(cfg) == {k \in 1..4 : cfg.scales[ScaleNames[k]] \notin PowersOfTen}

FirstOffending(cfg) == CHOOSE k \in Offending(cfg) : \A j \in Offending(cfg) : k <= j

\* C32: validation accepts the scales if and only if each of price, qty,
\* open_interest and funding is a positive exact power of ten, where
\* is_power_of_ten(v) is true exactly for v = 10^k with k >= 0; a
\* non-positive scale is rejected as 'must be > 0' and a positive non-power
\* with a message containing 'must be a power of 10'.
C32_ScalesPowerOfTen ==
    /\ (Validated /\ HeadValid(validation.cfg)) =>
           LET cfg == validation.cfg
               r == validation.result
           IN  /\ r.ok <=> Offending(cfg) = {}
               /\ ~r.ok =>
                      LET name == ScaleNames[FirstOffending(cfg)]
                      IN  /\ r.kind = "InvalidConfig"
                          /\ r.about = name
                          /\ cfg.scales[name] <= 0 => r.text = "must be > 0"
                          /\ cfg.scales[name] > 0 =>
                                 /\ r.text = "must be a power of 10"
                                 /\ r.got = cfg.scales[name]
    /\ (validation.pc = "done" /\ validation.op = "is_power_of_ten") =>
           /\ validation.answer <=> validation.v \in PowersOfTen
           /\ validation.v \in {0, -10, 500} => ~validation.answer
           /\ validation.v = 1 => validation.answer

\* C32 witness: a config whose qty scale is 500 and whose open_interest
\* scale is 0 is rejected for qty, as not a power of ten
C32_Witness ==
    /\ Validated
    /\ HeadValid(validation.cfg)
    /\ validation.cfg.scales =
           [n \in {ScaleNames[k] : k \in 1..4} |->
               IF n = "qty" THEN 500 ELSE IF n = "open_interest" THEN 0 ELSE 10]
    /\ validation.result = ValidErr("InvalidConfig", "qty", "must be a power of 10", 500)

\* a frame has arrived and was not read yet
FrameAvailable == Active /\ ws.cycle.inbox # << >>

\* the heartbeat interval has a tick ready that was not taken yet
HeartbeatDue == Active /\ ws.cycle.hb_tick

\* C33: while a connection is Active the heartbeat timer and the read loop
\* are independent events: a frame that is available is delivered to
\* on_event without waiting for the next heartbeat tick, and a heartbeat
\* that is due is sent without waiting for a frame to arrive; that is,
\* whenever one of the two is ready the task has a step to take.
C33_HeartbeatReadIndependent ==
    (FrameAvailable \/ HeartbeatDue) => ENABLED WsClient

\* the INSERTs of the key of t that the store executed and that hold row r
InsertedWith(t, r) == {i \in StmtsWith(t, r) : store[t][i].ok}

\* C34: when write_batch_with_retry returns Ok after any number of failed
\* attempts, each row that was in the batch has been inserted into the store
\* exactly once: a flush attempt that fails at chunk k leaves none of the
\* rows of chunks 1..k-1 in the store to be inserted again by the next
\* attempt. Looked at for the first call made on an empty store, when it
\* has flushed (an Ok of a call that had nothing to flush writes nothing).
C34_InsertedOnce ==
    \A t \in Tasks :
        (/\ CallsMade = 1
         /\ pc[t] = "ret"
         /\ call[t].result = "Ok"
         /\ batch[t].rows = << >>) =>
            \A k \in 1..Len(call[t].rows0) :
                Cardinality(InsertedWith(t, call[t].rows0[k])) = 1

\* ---------------------------------------------------------------------
\* The gate called from several threads at once: the stores of the
\* methods interleave.
\* ---------------------------------------------------------------------

\* what a gate method leaves alone when threads race
beside_racing ==
    << writer, failover, gcall, evaluation, tracker, lcall, poll, registry, rcall,
       ingest, app >>

\* the calls the threads make: apply_health with a healthy, a down and a
\* saturated status, disable_manual, enable_manual
RaceCalls ==
    {RaceCall("apply_health", st, apply_health(failover, st)) :
        st \in {healthy, unhealthy("Down"), unhealthy("MaxPending")}}
    \cup {RaceCall("disable_manual", NoStatus, disable_manual),
          RaceCall("enable_manual", NoStatus, enable_manual)}

\* thread t enters a gate method
RaceEnter(t, c) ==
    /\ racing[t].op = "none"
    /\ racing' = [racing EXCEPT ![t] = c]
    /\ UNCHANGED << beside_racing, gate, redis_metrics >>

\* a store on one of the gate's fields
StoreOn(g, st) ==
    CASE st.field = "enabled" -> [g EXCEPT !.enabled = st.value]
      [] st.field = "stop_assigning_new" -> [g EXCEPT !.stop_assigning_new = st.value]
      [] st.field = "last_disable" -> [g EXCEPT !.last_disable = st.value]
      [] OTHER -> g

\* a call on RedisMetrics
MetricOn(m, st) ==
    CASE st.field = "enabled_state" -> [m EXCEPT !.enabled_state = st.value]
      [] st.field = "disable_with_reason" ->
             [m EXCEPT !.enabled_state = FALSE,
                       !.disable_events_total[st.value] = @ + 1]
      [] st.field = "disable_events_total" ->
             [m EXCEPT !.disable_events_total[st.value] = @ + 1]
      [] OTHER -> m

\* thread t does the next store of its method
RaceStore(t) ==
    /\ racing[t].todo # << >>
    /\ gate' = StoreOn(gate, Head(racing[t].todo))
    /\ redis_metrics' = MetricOn(redis_metrics, Head(racing[t].todo))
    /\ racing' = [racing EXCEPT ![t].todo = Tail(@)]
    /\ UNCHANGED beside_racing

InitRace ==
    /\ InitWith({}, Limits(1, 0, 0), {ShardsS2}, {MaxInflight})
    /\ RedisIdle
    /\ RegistryInit
    /\ IngestIdle
    /\ AppIdle

NextRace ==
    \/ \E t \in GateThreads : \E c \in RaceCalls : RaceEnter(t, c)
    \/ \E t \in GateThreads : RaceStore(t)

SpecRace == InitRace /\ [][NextRace]_vars

\* every thread has made its call and has returned from it
AllReturned == \A t \in GateThreads : racing[t].op # "none" /\ racing[t].todo = << >>

\* the gate after the stores of one method, done without interruption
RECURSIVE RunStores(_, _)
RunStores(g, stores) ==
    IF stores = << >> THEN g ELSE RunStores(StoreOn(g, Head(stores)), Tail(stores))

\* the stores of the method thread t called
StoresOf(t) ==
    CASE racing[t].op = "apply_health" -> apply_health(failover, racing[t].status)
      [] racing[t].op = "disable_manual" -> disable_manual
      [] racing[t].op = "enable_manual" -> enable_manual
      [] OTHER -> << >>

\* the gate after the calls of the threads order[1], order[2], ..., order[k],
\* one after the other, on a new gate
RECURSIVE RunCalls(_, _)
RunCalls(order, k) ==
    IF k = 0 THEN GateNew ELSE RunStores(RunCalls(order, k - 1), StoresOf(order[k]))

\* what the calls made can leave when they run in some sequential order
SequentialOutcomes ==
    {RunCalls(order, NumThreads) : order \in Permutations(GateThreads)}

\* C35: when apply_health, disable_manual and enable_manual are called
\* concurrently from different threads, then once all calls have returned
\* the gate's three fields equal the result of applying those calls in some
\* sequential order; in particular the gate is never left with enabled =
\* false and stop_assigning_new = false, nor with enabled = false and
\* last_disable_reason() = None.
C35_GateSequential ==
    AllReturned =>
        /\ gate \in SequentialOutcomes
        /\ ~(~gate.enabled /\ ~gate.stop_assigning_new)
        /\ ~(~gate.enabled /\ last_disable_reason(gate) = "None")

SaturationReasons == {"MaxMemory", "MaxPending", "Saturated"}

\* C36: apply_health with a saturation reason (MaxMemory, MaxPending,
\* Saturated) changes only stop_assigning_new (set to true): the enabled
\* flag and last_disable_reason() keep the values they had before the call,
\* so a gate disabled by Down stays unable to publish with reason Down, and
\* a healthy gate that becomes saturated reports no disable reason.
C36_SaturationFrame ==
    HealthApplied(FALSE, SaturationReasons) =>
        /\ gate = [gcall.entry EXCEPT !.stop_assigning_new = TRUE]
        /\ last_disable_reason(gcall.entry) = "Down" =>
               /\ ~can_publish(gate)
               /\ last_disable_reason(gate) = "Down"
        /\ gcall.entry = GateNew => last_disable_reason(gate) = "None"

\* C36 witness: Saturated was applied to a gate that a Down status had
\* disabled: it is still disabled, for Down
C36_Witness ==
    /\ HealthApplied(FALSE, {"Saturated"})
    /\ gcall.prev = "apply_health"
    /\ gcall.entry = [enabled |-> FALSE, stop_assigning_new |-> TRUE,
                      last_disable |-> "Down"]
    /\ gate = gcall.entry
    /\ redis_metrics.disable_events_total["Saturated"] = 1

\* ---------------------------------------------------------------------
\* The health loop: the verdict of evaluate is applied to the gate.
\* ---------------------------------------------------------------------

\* gate.apply_health(&ev.evaluate(snapshot))
ApplyEvaluated ==
    /\ evaluation.asked
    /\ gcall.op = "none"
    /\ ApplyHealth(evaluation.status)

InitHealth ==
    /\ InitWith({}, Limits(1, 0, 0), {ShardsS2}, {MaxInflight})
    /\ RedisInit(FailoverConfig)
    /\ \E cap \in CapacityConfig : \E snapshot \in RedisSnapshot :
           evaluation = EvaluatorNew(cap, snapshot)
    /\ TrackerInit({1}, 0)
    /\ RegistryInit
    /\ IngestIdle
    /\ AppIdle

NextHealth ==
    \/ Evaluate
    \/ ApplyEvaluated
    \/ StoreEnabled
    \/ StoreStopAssigningNew
    \/ StoreLastDisable
    \/ SetEnabledState
    \/ DisableWithReason
    \/ IncDisableEvents

SpecHealth == InitHealth /\ [][NextHealth]_vars

\* a saturation rule fires on the snapshot
SaturationFires(cap, s) ==
    RuleFires("MaxMemory", cap, s) \/ RuleFires("MaxPending", cap, s)

\* the verdict on the snapshot was applied to the gate
VerdictApplied == evaluation.asked /\ GateReturned /\ gcall.op = "apply_health"

\* C37: for a snapshot that is up and whose p99 latency exceeds its
\* threshold while used_memory_pct or pending_total also exceeds its
\* threshold, evaluate reports the saturation reason and not Latency, so
\* apply_health(evaluate(snapshot)) on an enabled gate leaves can_publish()
\* true; publishing is disabled for latency only when neither saturation
\* rule fires.
C37_SaturationBeforeLatency ==
    LET cap == evaluation.cap
        s == evaluation.snapshot
        st == evaluation.status
    IN  /\ (/\ evaluation.asked
            /\ s.is_up
            /\ RuleFires("Latency", cap, s)
            /\ SaturationFires(cap, s)) =>
               /\ st.reason = IF RuleFires("MaxMemory", cap, s) THEN "MaxMemory"
                              ELSE "MaxPending"
               /\ (VerdictApplied /\ can_publish(gcall.entry)) => can_publish(gate)
        /\ (VerdictApplied /\ ~can_publish(gate) /\ last_disable_reason(gate) = "Latency") =>
               /\ s.is_up
               /\ RuleFires("Latency", cap, s)
               /\ ~SaturationFires(cap, s)

\* C37 witness: latency and backlog are both above their thresholds, memory
\* is unknown: the verdict MaxPending was applied and the gate publishes
C37_Witness ==
    /\ VerdictApplied
    /\ evaluation.snapshot.is_up
    /\ evaluation.snapshot.used_memory_pct = None
    /\ RuleFires("MaxPending", evaluation.cap, evaluation.snapshot)
    /\ RuleFires("Latency", evaluation.cap, evaluation.snapshot)
    /\ evaluation.status = unhealthy("MaxPending")
    /\ can_publish(gate)
    /\ ~can_assign_new_symbol(gate)

\* ---------------------------------------------------------------------
\* redis/health/poller.rs: HealthPoller::poll_once
\* ---------------------------------------------------------------------
MaxRtt == 1          \* the ping's round trip takes 0..MaxRtt ms

\* what poll_once does not change
beside_poll ==
    << writer, failover, gate, redis_metrics, gcall, evaluation, tracker, lcall,
       racing, registry, rcall, ingest, app >>

\* the values the caller injects as p99_cmd_ms
InjectedP99 == {None, Some(Finite(0)), Some(Finite(3)), Some(NaN)}

\* what probe.memory_info() answers with Ok: (used, max, pct)
MemoryAnswers ==
    {<< Some(1), max, pct >> : max \in {None, Some(2)},
                               pct \in {None, Some(Finite(1))}}

\* what probe.pending_total() answers with Ok
PendingAnswers == {Some(0), Some(2)}

\* a poll_once that never reports the connection as down
snapshot_down_as_up(p) ==
    PollSnapshot(TRUE, p.ping_rtt_ms, None, None, None, None, p.p99_cmd_ms)

\* the snapshot returned when the ping failed
snapshot_down(p) ==
    PollSnapshot(FALSE, p.ping_rtt_ms, None, None, None, None, p.p99_cmd_ms)

\* probe.ping().await fails: the snapshot is returned at once
PollPingErr ==
    /\ poll.pc = "ping"
    /\ poll' = [poll EXCEPT !.probed = Append(@, "ping"),
                            !.snapshot = snapshot_down(poll),
                            !.returned = TRUE, !.pc = "done"]
    /\ UNCHANGED beside_poll

\* probe.ping().await succeeds after rtt ms
PollPingOk(rtt) ==
    /\ poll.pc = "ping"
    /\ poll' = [poll EXCEPT !.probed = Append(@, "ping"),
                            !.ping_rtt_ms = Some(Finite(rtt)),
                            !.pc = "memory_info"]
    /\ UNCHANGED beside_poll

\* probe.memory_info().await: Ok((used, max, pct)) or Err
PollMemoryInfo(ok, answer) ==
    /\ poll.pc = "memory_info"
    /\ poll' = [poll EXCEPT !.probed = Append(@, "memory_info"),
                            !.failed = IF ok THEN @ ELSE @ \cup {"memory_info"},
                            !.memory = IF ok THEN answer ELSE << None, None, None >>,
                            !.pc = "pending_total"]
    /\ UNCHANGED beside_poll

\* probe.pending_total().await: Ok(v) or Err; the snapshot is returned
PollPendingTotal(ok, answer) ==
    /\ poll.pc = "pending_total"
    /\ poll' = [poll EXCEPT
                   !.probed = Append(@, "pending_total"),
                   !.failed = IF ok THEN @ ELSE @ \cup {"pending_total"},
                   !.snapshot =
                       PollSnapshot(TRUE, poll.ping_rtt_ms, poll.memory[1],
                                    poll.memory[2], poll.memory[3],
                                    IF ok THEN answer ELSE None, poll.p99_cmd_ms),
                   !.returned = TRUE, !.pc = "done"]
    /\ UNCHANGED beside_poll

InitPoll ==
    /\ InitWith({}, Limits(1, 0, 0), {ShardsS2}, {MaxInflight})
    /\ failover = [on_down |-> "DisableRedisTemporarily",
                   on_saturated |-> "StopAssigningNew"]
    /\ gate = GateNew
    /\ redis_metrics = RedisMetricsNew
    /\ gcall = GCallIdle
    /\ racing = RacingIdle
    /\ EvaluatorIdle
    /\ TrackerInit({1}, 0)
    /\ RegistryInit
    /\ IngestIdle
    /\ AppIdle
    /\ \E p99 \in InjectedP99 : poll = PollNew(p99)

NextPoll ==
    \/ PollPingErr
    \/ \E rtt \in 0..MaxRtt : PollPingOk(rtt)
    \/ \E ok \in BOOLEAN : \E answer \in MemoryAnswers : PollMemoryInfo(ok, answer)
    \/ \E ok \in BOOLEAN : \E answer \in PendingAnswers : PollPendingTotal(ok, answer)

SpecPoll == InitPoll /\ [][NextPoll]_vars

\* poll_once has returned its snapshot
Polled == poll.pc = "done" /\ poll.returned

\* C38: poll_once always yields a snapshot and never an error: when ping
\* fails the snapshot has is_up = false with all memory fields and
\* pending_total unknown and neither memory_info nor pending_total is
\* probed; when ping succeeds is_up = true, a failing memory_info or
\* pending_total makes only its own fields unknown, and the probes run in the
\* order ping, memory_info, pending_total; the injected p99 value is passed
\* through unchanged in both cases.
C38_PollAlwaysSnapshot ==
    /\ poll.pc = "done" => poll.returned
    /\ \A k \in 1..Len(poll.probed) :
           poll.probed[k] = << "ping", "memory_info", "pending_total" >>[k]
    /\ Polled =>
           LET s == poll.snapshot
           IN  /\ s.p99_cmd_ms = poll.p99_cmd_ms
               /\ ~s.is_up =>
                      /\ poll.probed = << "ping" >>
                      /\ s.used_memory_bytes = None
                      /\ s.maxmemory_bytes = None
                      /\ s.used_memory_pct = None
                      /\ s.pending_total = None
               /\ s.is_up =>
                      /\ poll.probed = << "ping", "memory_info", "pending_total" >>
                      /\ s.ping_rtt_ms # None
                      /\ (s.used_memory_bytes = None) = ("memory_info" \in poll.failed)
                      /\ "memory_info" \in poll.failed =>
                             s.maxmemory_bytes = None /\ s.used_memory_pct = None
                      /\ (s.pending_total = None) = ("pending_total" \in poll.failed)

\* C38 witness: the ping succeeded, memory_info failed and pending_total
\* answered 2: only the memory fields are unknown, the injected NaN is
\* passed on
C38_Witness ==
    /\ Polled
    /\ poll.failed = {"memory_info"}
    /\ poll.snapshot =
           PollSnapshot(TRUE, Some(Finite(1)), None, None, None, Some(2), Some(NaN))

\* ---------------------------------------------------------------------
\* The registry over a stream's life: upsert_stream_registry,
\* remove_stream and load_enabled_streams_from_registry on one registry
\* ---------------------------------------------------------------------

\* the depth stream enabled on both shards, left by runs between which the
\* shard list changed
StoredBoth ==
    [id \in ShardIds |->
        IF id = "A" THEN {RegistryRow(SpecDepth, KnobsDefault, TRUE, 0)}
        ELSE {RegistryRow(SpecDepth, KnobsTuned, TRUE, 0),
              RegistryRow(SpecTrades, KnobsDefault, FALSE, 0)}]

InitLife ==
    /\ InitWith({}, Limits(1, 0, 0), {ShardsS2, ShardsNoCatchAll}, {MaxInflight})
    /\ RedisIdle
    /\ \E stored \in StoredRegistries \cup {StoredBoth, RegistryEmpty.rows} :
           registry = [rows |-> stored, now |-> 0]
    /\ rcall = [RCallIdle EXCEPT !.before = registry.rows]
    /\ IngestIdle
    /\ AppIdle

NextLife ==
    \/ RegTick
    \/ \E spec \in StreamSpecs : \E knobs \in KnobsSet : \E enabled \in BOOLEAN :
           UpsertStreamRegistry(spec, knobs, enabled)
    \/ \E spec \in StreamSpecs : RemoveStream(spec)
    \/ RegKeyErr
    \/ RegRouteOk
    \/ RegRouteErr
    \/ RegConnErr
    \/ RegExecErr
    \/ RegUpsertExec
    \/ RegRemoveExec
    \/ LoadEnabled
    \/ LoadShardErr
    \/ LoadShard
    \/ LoadSorted

SpecLife == InitLife /\ [][NextLife]_vars

\* load_enabled has returned Ok(out) and the registry call before it was op,
\* which returned Ok
LoadedAfter(op) ==
    /\ LoadReturned
    /\ rcall.prev.op = op
    /\ rcall.prev.result = "Ok"

\* how many entries of the returned list are the stream
TimesLoaded(id) ==
    Cardinality({i \in 1..Len(rcall.load.out) : IdOf(rcall.load.out[i]) = id})

\* C40: after remove(spec) returns Ok, load_enabled() does not return that
\* stream again until it is upserted again, including when rows for its
\* stream_id are present on more than one shard; and after
\* upsert(spec, knobs, enabled = true) returns Ok, load_enabled() returns
\* that stream exactly once.
C40_RemovedStaysGone ==
    /\ LoadedAfter("remove") =>
           TimesLoaded(StreamId(rcall.prev.args.spec)) = 0
    /\ (LoadedAfter("upsert") /\ rcall.prev.args.enabled) =>
           TimesLoaded(StreamId(rcall.prev.args.spec)) = 1

====
